---- MODULE Spec2Model ----
(***************************************************************************)
(* Wake-cycle orchestration and update coordination of the ESP32 battery   *)
(* monitor: setup()/loop() of main.cpp, OTAManager, NetworkManager's MQTT  *)
(* dispatcher, ConfigManager and the serial CommandHandler, together with  *)
(* the environment they talk to (broker, operator, serial console, power). *)
(*                                                                         *)
(* Arduino Strings are sequences of one-character strings, so trimming,    *)
(* case folding and character search are computed, not assumed.            *)
(***************************************************************************)
EXTENDS Integers, Sequences, FiniteSets, TLC

(***************************************************************************)
(* Bounds of the model.                                                    *)
(***************************************************************************)
MaxEvents == 2      \* broker messages, console lines and power losses in a run
MaxBoots == 2       \* value of bootCount beyond which the wake-up timer is not modelled
MaxWaitPasses == 2  \* passes of the upload wait loop that fit into otaTimeout
MaxPart == 1        \* small numbers a version string is made of: 0..MaxPart (and 9, 10)
MaxCommands == 2    \* console commands in a run of the configuration store
MaxVolts == 20      \* highest voltage of a reading, in volts

(***************************************************************************)
(* Arduino String helpers.                                                 *)
(***************************************************************************)
UpperChars == <<"A", "B", "C", "D", "E", "F", "G", "H", "I", "J", "K", "L", "M",
                "N", "O", "P", "Q", "R", "S", "T", "U", "V", "W", "X", "Y", "Z">>
LowerChars == <<"a", "b", "c", "d", "e", "f", "g", "h", "i", "j", "k", "l", "m",
                "n", "o", "p", "q", "r", "s", "t", "u", "v", "w", "x", "y", "z">>

\* tolower() on one character
toLowerChar(c) ==
  IF \E i \in 1..26 : UpperChars[i] = c
  THEN LowerChars[CHOOSE i \in 1..26 : UpperChars[i] = c]
  ELSE c

\* String::toLowerCase
toLowerCase(s) == [i \in 1..Len(s) |-> toLowerChar(s[i])]

\* isspace()
isSpace(c) == c \in {" ", "\t", "\n", "\r"}

\* String::trim : drop leading and trailing whitespace
trim(s) ==
  IF \A i \in 1..Len(s) : isSpace(s[i])
  THEN << >>
  ELSE LET first == CHOOSE i \in 1..Len(s) :
                      /\ ~isSpace(s[i])
                      /\ \A j \in 1..(i - 1) : isSpace(s[j])
           last  == CHOOSE i \in 1..Len(s) :
                      /\ ~isSpace(s[i])
                      /\ \A j \in (i + 1)..Len(s) : isSpace(s[j])
       IN  SubSeq(s, first, last)

\* String::indexOf(c) : 0-based index of the first c, or -1
indexOf(s, c) ==
  IF \E i \in 1..Len(s) : s[i] = c
  THEN (CHOOSE i \in 1..Len(s) : s[i] = c /\ \A j \in 1..(i - 1) : s[j] # c) - 1
  ELSE -1

\* String::equalsIgnoreCase
equalsIgnoreCase(a, b) ==
  /\ Len(a) = Len(b)
  /\ \A i \in 1..Len(a) : toLowerChar(a[i]) = toLowerChar(b[i])

(***************************************************************************)
(* Literals of the program.                                                *)
(***************************************************************************)
EMPTY == << >>
STR_update == <<"u", "p", "d", "a", "t", "e">>
STR_ota == <<"o", "t", "a">>
STR_nvs == <<"n", "v", "s">>
STR_config == <<"c", "o", "n", "f", "i", "g">>

\* FIRMWARE_VERSION of the image the factory flashes, and of a newer release
V100 == <<"1", ".", "0", ".", "0">>
V101 == <<"1", ".", "0", ".", "1">>
Versions == {V100, V101}

\* Config::ENABLE_DEEP_SLEEP
ENABLE_DEEP_SLEEP == TRUE
\* Config::AUTO_CHECK_OTA ("Automatically check for available updates on every wake")
AUTO_CHECK_OTA == TRUE

(***************************************************************************)
(* Inputs the environment can produce.                                     *)
(***************************************************************************)
\* payloads an operator can publish to <base>/ota
OtaPayloads ==
  { <<" ">>,                                 \* whitespace only
    <<"O", "t", "a">>,                       \* keyword, mixed case
    <<" ", "v", "/", "f", " ">>,             \* relative path with padding
    <<"a", ":", "b">>,                       \* colon
    <<"c", "\\", "d">> }                     \* backslash

\* payloads an operator can publish to <base>/reset
ResetPayloads == { <<"N", "V", "S">>, <<"C", "o", "n", "f", "i", "g">>, <<"n", "o">> }

\* values typed after "otaver" on the serial console
TargetVersions == { V101 }

(***************************************************************************)
(* Version comparison (OTAManager::isNewerVersion), with sscanf computed.  *)
(***************************************************************************)
isDigit(c) == c \in {"0", "1", "2", "3", "4", "5", "6", "7", "8", "9"}

digitVal(c) ==
  CASE c = "0" -> 0 [] c = "1" -> 1 [] c = "2" -> 2 [] c = "3" -> 3 [] c = "4" -> 4
    [] c = "5" -> 5 [] c = "6" -> 6 [] c = "7" -> 7 [] c = "8" -> 8 [] c = "9" -> 9

RECURSIVE scanDigits(_, _, _)
scanDigits(s, i, acc) ==
  IF i <= Len(s) /\ isDigit(s[i])
  THEN scanDigits(s, i + 1, acc * 10 + digitVal(s[i]))
  ELSE [val |-> acc, next |-> i]

RECURSIVE skipSpace(_, _)
skipSpace(s, i) == IF i <= Len(s) /\ isSpace(s[i]) THEN skipSpace(s, i + 1) ELSE i

\* one %d conversion of sscanf, starting at position i
scanInt(s, i) ==
  LET j   == skipSpace(s, i)
      sgn == j <= Len(s) /\ s[j] \in {"-", "+"}
      neg == j <= Len(s) /\ s[j] = "-"
      k   == IF sgn THEN j + 1 ELSE j
  IN  IF k <= Len(s) /\ isDigit(s[k])
      THEN LET r == scanDigits(s, k, 0)
           IN  [ok |-> TRUE, val |-> IF neg THEN 0 - r.val ELSE r.val, next |-> r.next]
      ELSE [ok |-> FALSE, val |-> 0, next |-> k]

\* sscanf(s, "%d.%d.%d", &major, &minor, &patch) over variables preset to 0
sscanfVersion(s) ==
  LET a == scanInt(s, 1)
  IN  IF ~a.ok THEN <<0, 0, 0>>
      ELSE IF ~(a.next <= Len(s) /\ s[a.next] = ".") THEN <<a.val, 0, 0>>
      ELSE LET b == scanInt(s, a.next + 1)
           IN  IF ~b.ok THEN <<a.val, 0, 0>>
               ELSE IF ~(b.next <= Len(s) /\ s[b.next] = ".") THEN <<a.val, b.val, 0>>
               ELSE LET c == scanInt(s, b.next + 1)
                    IN  IF ~c.ok THEN <<a.val, b.val, 0>> ELSE <<a.val, b.val, c.val>>

IgnorePatchMutant(latestVersion, currentVersion) ==
  IF Len(latestVersion) = 0 \/ Len(currentVersion) = 0 THEN FALSE
  ELSE LET l == sscanfVersion(latestVersion)
           c == sscanfVersion(currentVersion)
       IN  l[1] > c[1] \/ (l[1] = c[1] /\ l[2] > c[2])
isNewerVersion(latestVersion, currentVersion) ==
  IF Len(latestVersion) = 0 \/ Len(currentVersion) = 0 THEN FALSE
  ELSE LET l == sscanfVersion(latestVersion)
           c == sscanfVersion(currentVersion)
       IN  \/ l[1] > c[1]
           \/ l[1] = c[1] /\ l[2] > c[2]
           \/ l[1] = c[1] /\ l[2] = c[2] /\ l[3] > c[3]

\* the file name checkForUpdates builds for BATTERY_TYPE == LEAD_ACID
firmwareFilename(targetVersion) ==
  <<"v">> \o targetVersion \o
  <<"/", "f", "i", "r", "m", "w", "a", "r", "e", "-",
    "l", "e", "a", "d", "a", "c", "i", "d", ".", "b", "i", "n">>

(***************************************************************************)
(* State.                                                                  *)
(***************************************************************************)
VARIABLES
  pc,            \* where setup()/loop() stands; "asleep" in deep sleep
  huRet,         \* where handleUpdate() returns to
  otaElapsed,    \* handleUpdate(): passes of the wait loop since otaStartTime
  nvsPending,    \* NVS "ota"/"pending"
  nvsFilename,   \* NVS "ota"/"filename"
  nvsCfg,        \* NVS "battery-mon": initialized, deep_sleep, ota_target
  fwVersion,     \* FIRMWARE_VERSION of the installed image
  bootCount,     \* RTC_DATA_ATTR int bootCount
  cfg,           \* ConfigManager fields in RAM
  otaRequested,  \* OTAManager::otaRequested
  otaFilename,   \* OTAManager::otaFilename
  displayReady,  \* DisplayManager::initialized
  wifiConnected, \* NetworkManager::wifiConnected
  mqttConnected, \* NetworkManager::mqttConnected
  bootPending,   \* what checkPendingOTA() returned in setup()
  cb,            \* activations of mqttCallback, innermost last
  retained,      \* broker: retained message of <base>/ota
  inbox,         \* broker: messages on their way to the device
  h              \* history of the run, read only by the properties

durable  == <<nvsPending, nvsFilename, nvsCfg, fwVersion>>
volatile == <<cfg, otaRequested, otaFilename, displayReady, wifiConnected,
              mqttConnected, bootPending, cb, huRet, otaElapsed>>
broker   == <<retained, inbox>>
vars     == <<pc, durable, bootCount, volatile, broker, h>>

\* ConfigManager() constructor
cfgConstructed ==
  [wifiSSID |-> EMPTY, deepSleepEnabled |-> TRUE, otaTargetVersion |-> EMPTY]
\* an erased "battery-mon" namespace: every get returns its default
nvsCfgErased ==
  [initialized |-> FALSE, wifi_ssid |-> EMPTY, deep_sleep |-> TRUE,
   ota_target |-> EMPTY]

NoRetained == [payload |-> EMPTY, gen |-> 0]
NoName == [set |-> FALSE, name |-> EMPTY]

\* the part of the history that describes the current wake cycle
cycleFresh(hh) ==
  [hh EXCEPT !.brokerUsed = FALSE, !.xfers = 0, !.brokerFirst = FALSE,
             !.failed = FALSE, !.afterFail = FALSE, !.reused = FALSE,
             !.lastDisp = "none", !.req = NoName, !.memUsed = FALSE,
             !.calls = 0, !.netUp = FALSE]

Init ==
  /\ pc = "boot"
  /\ huRet = "none"
  /\ otaElapsed = 0
  /\ nvsPending = FALSE
  /\ nvsFilename = EMPTY
  /\ nvsCfg = nvsCfgErased
  /\ fwVersion = V100
  /\ bootCount = 0
  /\ cfg = cfgConstructed
  /\ otaRequested = FALSE
  /\ otaFilename = EMPTY
  /\ displayReady = FALSE
  /\ wifiConnected = FALSE
  /\ mqttConnected = FALSE
  /\ bootPending = FALSE
  /\ cb = << >>
  /\ retained = NoRetained
  /\ inbox = << >>
  /\ h = [events |-> 0,
          armed |-> NoName, memUsed |-> FALSE, nvsUsed |-> FALSE, reused |-> FALSE,
          brokerUsed |-> FALSE, xfers |-> 0, brokerFirst |-> FALSE,
          failed |-> FALSE, afterFail |-> FALSE,
          acted |-> {}, reacted |-> FALSE, lost |-> FALSE,
          lastDisp |-> "none", req |-> NoName, calls |-> 0, boots |-> 1,
          netUp |-> FALSE]

(***************************************************************************)
(* History bookkeeping (reads the state, never steers the program).        *)
(***************************************************************************)
\* connectWiFi() has returned ok
noteWiFi(hh, ok) == [hh EXCEPT !.netUp = hh.netUp \/ ok]

\* an update transfer starts now
noteTransfer(hh) ==
  [hh EXCEPT !.reused = hh.memUsed,
             !.memUsed = TRUE,
             !.nvsUsed = nvsPending,
             !.afterFail = hh.afterFail \/ hh.failed,
             !.brokerFirst = IF hh.xfers = 0 THEN hh.brokerUsed ELSE hh.brokerFirst,
             !.xfers = IF hh.xfers < 2 THEN hh.xfers + 1 ELSE 2]

\* handleUpdate() gave up: the request in RAM is gone
noteFailure(hh) ==
  [hh EXCEPT !.failed = TRUE, !.lost = TRUE, !.memUsed = FALSE, !.req = NoName]

(***************************************************************************)
(* Resets.                                                                 *)
(***************************************************************************)
\* RAM and the broker session after any reset or in deep sleep
ramLost ==
  /\ cfg' = cfgConstructed
  /\ otaRequested' = FALSE
  /\ otaFilename' = EMPTY
  /\ displayReady' = FALSE
  /\ wifiConnected' = FALSE
  /\ mqttConnected' = FALSE
  /\ bootPending' = FALSE
  /\ cb' = << >>
  /\ huRet' = "none"
  /\ otaElapsed' = 0
  /\ inbox' = << >>

\* ESP.restart(): RAM is lost and RTC_DATA_ATTR variables are initialised again
espRestart(hh) ==
  /\ pc' = "boot"
  /\ bootCount' = 0
  /\ ramLost
  /\ h' = [cycleFresh(hh) EXCEPT !.boots = 1]

(***************************************************************************)
(* PersistentTrigger: the "ota" namespace (OTAManager).                    *)
(***************************************************************************)
\* requestUpdate: otaFilename = filename
FirstCallWinsMutant(filename) == IF otaRequested THEN otaFilename ELSE filename
requestedName(filename) == filename

\* requestUpdate(filename) is entered / has returned
callBegun(hh, filename) ==
  [hh EXCEPT !.armed = [set |-> FALSE, name |-> filename], !.memUsed = FALSE]
callReturned(hh) ==
  [hh EXCEPT !.armed.set = TRUE, !.calls = IF hh.calls < 2 THEN hh.calls + 1 ELSE 2]

\* saveOTATrigger: preferences.putBool("pending", true)
savePendingValue == TRUE
\* saveOTATrigger: preferences.putString("filename", filename)
SaveNoNameMutant(filename) == EMPTY
saveFilenameValue(filename) == filename
\* clearOTATrigger: preferences.putBool("pending", false)
ClearedPendingMutant == TRUE
clearPendingValue == FALSE
\* clearOTATrigger: preferences.putString("filename", "")
StaleNameMutant == nvsFilename
clearFilenameValue == EMPTY

\* the Preferences namespaces: preferences.begin("ota", ...) in OTAManager,
\* preferences.begin("battery-mon", false) in ConfigManager
otaNamespace == "ota"
SharedNamespaceMutant == "ota"
configNamespace == "battery-mon"

\* ConfigManager::clear: preferences.clear() removes every key of the namespace
\* ConfigManager has open; what a later get of the trigger keys returns
pendingAfterClear(pending) == IF configNamespace = otaNamespace THEN FALSE ELSE pending
filenameAfterClear(filename) == IF configNamespace = otaNamespace THEN EMPTY ELSE filename

(***************************************************************************)
(* setup()                                                                 *)
(***************************************************************************)
\* ConfigManager::begin on the "battery-mon" namespace
\* WIFI_SSID of wifi_credentials.h as compiled into an image
wifiSsidDefault(fw) == <<"s">> \o fw

DefaultsEveryBootMutant(nv, fw) ==
  [nv EXCEPT !.wifi_ssid = wifiSsidDefault(fw), !.deep_sleep = TRUE,
             !.initialized = TRUE]
configBegin(nv, fw) ==
  IF ~nv.initialized
  THEN [nv EXCEPT !.wifi_ssid = wifiSsidDefault(fw), !.deep_sleep = TRUE,
                  !.initialized = TRUE]
  ELSE nv

\* setup(): bootCount++
AlwaysFirstBootMutant(count) == 1
bootCountAfterSetup(count) == count + 1

\* setup() up to and including checkPendingOTA()
SetupBegin ==
  /\ pc = "boot"
  /\ bootCount' = bootCountAfterSetup(bootCount)
  /\ \E ready \in BOOLEAN : displayReady' = ready
  /\ nvsCfg' = configBegin(nvsCfg, fwVersion)
  /\ cfg' = [wifiSSID |-> nvsCfg'.wifi_ssid,
             deepSleepEnabled |-> nvsCfg'.deep_sleep,
             otaTargetVersion |-> nvsCfg'.ota_target]
  /\ bootPending' = nvsPending
  /\ otaRequested' = IF nvsPending THEN TRUE ELSE otaRequested
  /\ otaFilename' = IF nvsPending THEN nvsFilename ELSE otaFilename
  /\ h' = [cycleFresh(h) EXCEPT !.memUsed = nvsPending /\ h.nvsUsed]
  /\ pc' = "s_checked"
  /\ UNCHANGED <<nvsPending, nvsFilename, fwVersion, wifiConnected, mqttConnected,
                 cb, huRet, otaElapsed, broker>>

\* setup(), pending branch: if (network.connectWiFi()) { ... handleUpdate(); ... }
\* else "Will retry next boot"
UpdateAnywayMutant(ok) == "hu_enter"
afterPendingWiFi(ok) == IF ok THEN "hu_enter" ELSE "s_auto"

\* setup(): if (otaManager.checkPendingOTA()) { if (network.connectWiFi()) ...
SetupPending ==
  /\ pc = "s_checked"
  /\ IF bootPending
     THEN \E ok \in BOOLEAN :
            /\ wifiConnected' = ok
            /\ pc' = afterPendingWiFi(ok)
            /\ huRet' = IF ok THEN "s_pend_disc" ELSE huRet
            /\ h' = noteWiFi(h, ok)
     ELSE /\ pc' = "s_auto"
          /\ UNCHANGED <<wifiConnected, huRet, h>>
  /\ UNCHANGED <<otaElapsed, durable, bootCount, cfg, otaRequested, otaFilename, displayReady,
                 mqttConnected, bootPending, cb, broker>>

\* network.disconnect() in setup(), after either handleUpdate() call
SetupDisconnect ==
  /\ pc \in {"s_pend_disc", "s_auto_disc"}
  /\ wifiConnected' = FALSE
  /\ mqttConnected' = FALSE
  /\ inbox' = << >>
  /\ pc' = IF pc = "s_pend_disc" THEN "s_auto" ELSE "loop_top"
  /\ UNCHANGED <<durable, bootCount, cfg, otaRequested, otaFilename, displayReady,
                 bootPending, cb, huRet, otaElapsed, retained, h>>

\* OTAManager::checkForUpdates, the test that decides
NotOlderMutant(targetVersion, currentVersion) ==
  /\ Len(targetVersion) # 0
  /\ ~isNewerVersion(currentVersion, targetVersion)
updateAvailable(targetVersion, currentVersion) ==
  /\ Len(targetVersion) # 0
  /\ isNewerVersion(targetVersion, currentVersion)

\* setup(): if (display.isReady()) {...} else if (Config::AUTO_CHECK_OTA) {...}
SetupAutoCheck ==
  /\ pc = "s_auto"
  /\ IF displayReady \/ ~AUTO_CHECK_OTA
     THEN /\ pc' = "loop_top"
          /\ UNCHANGED <<wifiConnected, otaRequested, otaFilename, h>>
     ELSE \E ok \in BOOLEAN :
            /\ wifiConnected' = ok
            /\ IF ok /\ updateAvailable(cfg.otaTargetVersion, fwVersion)
               THEN \* requestUpdate(firmwareFilename)
                    /\ otaRequested' = TRUE
                    /\ otaFilename' = requestedName(firmwareFilename(cfg.otaTargetVersion))
                    /\ h' = [callBegun(h, firmwareFilename(cfg.otaTargetVersion))
                               EXCEPT !.req = NoName, !.netUp = TRUE]
                    /\ pc' = "s_save_bool"
               ELSE /\ pc' = IF ok THEN "s_auto_disc" ELSE "loop_top"
                    /\ h' = noteWiFi(h, ok)
                    /\ UNCHANGED <<otaRequested, otaFilename>>
  /\ UNCHANGED <<durable, bootCount, cfg, displayReady, mqttConnected, bootPending,
                 cb, huRet, otaElapsed, broker>>

\* requestUpdate -> saveOTATrigger, first write
SetupSaveBool ==
  /\ pc = "s_save_bool"
  /\ nvsPending' = savePendingValue
  /\ h' = [h EXCEPT !.nvsUsed = FALSE]
  /\ pc' = "s_save_str"
  /\ UNCHANGED <<nvsFilename, nvsCfg, fwVersion, bootCount, volatile, broker>>

\* requestUpdate -> saveOTATrigger, second write; then handleUpdate() is called
SetupSaveStr ==
  /\ pc = "s_save_str"
  /\ nvsFilename' = saveFilenameValue(otaFilename)
  /\ h' = callReturned(h)
  /\ pc' = "hu_enter"
  /\ huRet' = "s_auto_disc"
  /\ UNCHANGED <<otaElapsed, nvsPending, nvsCfg, fwVersion, bootCount, cfg, otaRequested,
                 otaFilename, displayReady, wifiConnected, mqttConnected,
                 bootPending, cb, broker>>

(***************************************************************************)
(* OTAManager::handleUpdate                                                *)
(***************************************************************************)
\* what handleUpdate() does first for a request: clearOTATrigger(), in either mode
TransferFirstMutant(filename) == IF Len(filename) > 0 THEN "hu_http" ELSE "hu_wait"
handleUpdateFirstStep(filename) == "hu_clr_bool"

\* if (!otaRequested) return;
HandleUpdateEnter ==
  /\ pc = "hu_enter"
  /\ pc' = IF otaRequested THEN handleUpdateFirstStep(otaFilename) ELSE huRet
  /\ h' = IF otaRequested
          THEN [h EXCEPT !.armed = NoName, !.calls = 0, !.lastDisp = "none"]
          ELSE [h EXCEPT !.lastDisp = "none"]
  /\ UNCHANGED <<durable, bootCount, volatile, broker>>

\* clearOTATrigger, first write (either mode clears before its transfer)
ClearPutBool ==
  /\ pc = "hu_clr_bool"
  /\ nvsPending' = clearPendingValue
  /\ h' = [h EXCEPT !.nvsUsed = FALSE]
  /\ pc' = "hu_clr_str"
  /\ UNCHANGED <<nvsFilename, nvsCfg, fwVersion, bootCount, volatile, broker>>

\* clearOTATrigger, second write; the mode is chosen by otaFilename.length() > 0
ClearPutString ==
  /\ pc = "hu_clr_str"
  /\ nvsFilename' = clearFilenameValue
  /\ pc' = IF Len(otaFilename) > 0 THEN "hu_http" ELSE "hu_wait"
  /\ UNCHANGED <<nvsPending, nvsCfg, fwVersion, bootCount, volatile, broker, h>>

\* otaRequested = false; on the two paths where handleUpdate() gives up
StillRequestedMutant == TRUE
requestedAfterFailure == FALSE

\* performHTTPUpdate(otaFilename): httpUpdate.update() starts fetching
HttpStart ==
  /\ pc = "hu_http"
  /\ pc' = "hu_http_xfer"
  /\ h' = noteTransfer(h)
  /\ UNCHANGED <<durable, bootCount, volatile, broker>>

\* performHTTPUpdate returns: true -> ESP.restart() into the image, false -> give up
HttpEnd ==
  /\ pc = "hu_http_xfer"
  /\ \E ok \in BOOLEAN :
       IF ok
       THEN /\ \E v \in Versions : fwVersion' = v
            /\ espRestart(h)
            /\ UNCHANGED <<nvsPending, nvsFilename, nvsCfg, retained>>
       ELSE /\ otaRequested' = requestedAfterFailure
            /\ pc' = huRet
            /\ h' = noteFailure(h)
            /\ UNCHANGED <<durable, bootCount, cfg, otaFilename, displayReady,
                           wifiConnected, mqttConnected, bootPending, cb, huRet, otaElapsed,
                           broker>>

\* const unsigned long otaTimeout = 60000, counted in passes of the wait loop
\* (each pass ends with delay(100)); the model's window is MaxWaitPasses long
otaTimeout == MaxWaitPasses

\* while (millis() - otaStartTime < otaTimeout)
windowOpen(elapsed) == elapsed < otaTimeout

\* millis() - otaStartTime after one more pass: ArduinoOTA.handle(); delay(100)
StalledClockMutant(elapsed) == elapsed
elapsedAfterPass(elapsed) == elapsed + 1

\* the wait window opens: otaStartTime = millis(), and the loop test is passed
WaitStart ==
  /\ pc = "hu_wait"
  /\ pc' = "hu_wait_xfer"
  /\ otaElapsed' = 0
  /\ h' = noteTransfer(h)
  /\ UNCHANGED <<durable, bootCount, cfg, otaRequested, otaFilename, displayReady,
                 wifiConnected, mqttConnected, bootPending, cb, huRet, broker>>

\* one pass of the wait loop in which no upload completes
WaitPass ==
  /\ pc = "hu_wait_xfer"
  /\ windowOpen(otaElapsed)
  /\ otaElapsed' = elapsedAfterPass(otaElapsed)
  /\ UNCHANGED <<pc, durable, bootCount, cfg, otaRequested, otaFilename, displayReady,
                 wifiConnected, mqttConnected, bootPending, cb, huRet, broker, h>>

\* the wait window ends: an upload completes in a pass (ArduinoOTA reboots), or
\* the loop test fails and handleUpdate() gives up
WaitEnd ==
  /\ pc = "hu_wait_xfer"
  /\ IF windowOpen(otaElapsed)
       THEN /\ \E v \in Versions : fwVersion' = v
            /\ espRestart(h)
            /\ UNCHANGED <<nvsPending, nvsFilename, nvsCfg, retained>>
       ELSE /\ otaRequested' = requestedAfterFailure
            /\ otaElapsed' = 0
            /\ pc' = huRet
            /\ h' = noteFailure(h)
            /\ UNCHANGED <<durable, bootCount, cfg, otaFilename, displayReady,
                           wifiConnected, mqttConnected, bootPending, cb, huRet,
                           broker>>

(***************************************************************************)
(* NetworkManager::mqttCallback, the dispatcher.                           *)
(***************************************************************************)
\* if (message.length() == 0) ... return;   (message already trimmed)
IgnoreNothingMutant(message) == FALSE
isRetainedClearEcho(message) == Len(message) = 0

\* message.indexOf('\\') == -1 && message.indexOf(':') == -1
AcceptAllMutant(message) == TRUE
isValidPath(message) == indexOf(message, "\\") = -1 /\ indexOf(message, ":") = -1

\* message.equalsIgnoreCase("update") || message.equalsIgnoreCase("ota")
isGenericTrigger(message) ==
  equalsIgnoreCase(message, STR_update) \/ equalsIgnoreCase(message, STR_ota)

\* the argument otaCallback is given for an accepted message
KeepNameMutant(message) == message
otaCallbackArg(message) == IF isGenericTrigger(message) THEN EMPTY ELSE message

\* message.equalsIgnoreCase("nvs") || message.equalsIgnoreCase("config")
CaseSensitiveMutant(message) == message = STR_nvs \/ message = STR_config
isResetCommand(message) ==
  equalsIgnoreCase(message, STR_nvs) \/ equalsIgnoreCase(message, STR_config)

\* what a non-empty /ota message does first: publish the retained clear
DispatchFirstMutant == "dispatch"
firstPhase == "clear"

\* where control goes when the outermost mqttCallback returns to loop():
\* if (otaManager.isUpdateRequested()) { otaManager.handleUpdate(); break; }
afterCallback(stack, requested) ==
  IF stack # << >> THEN "l_cb"
  ELSE IF requested THEN "hu_enter" ELSE "l_pump"

afterCallbackRet(stack, requested) ==
  IF stack = << >> /\ requested THEN "l_disc" ELSE huRet

top == cb[Len(cb)]
setTop(f) == [cb EXCEPT ![Len(cb)] = f]
pop == SubSeq(cb, 1, Len(cb) - 1)

\* mqttClient.loop() hands message m to mqttCallback; rest stays in flight
mqttCallback(m, rest) ==
  IF m.topic = "reset" /\ isResetCommand(m.payload)
  THEN \* resetCallback: config.clear(); ESP.restart()
       /\ nvsCfg' = nvsCfgErased
       /\ pc' = "boot"
       /\ bootCount' = 0
       /\ ramLost
       /\ h' = [cycleFresh(h) EXCEPT !.lastDisp = "reset", !.boots = 1]
       /\ nvsPending' = pendingAfterClear(nvsPending)
       /\ nvsFilename' = filenameAfterClear(nvsFilename)
       /\ UNCHANGED <<fwVersion, retained>>
  ELSE /\ inbox' = rest
       /\ IF m.topic = "ota" /\ ~isRetainedClearEcho(trim(m.payload))
          THEN /\ cb' = Append(cb, [msg |-> trim(m.payload), gen |-> m.gen,
                                    phase |-> firstPhase, cleared |-> FALSE])
               /\ pc' = "l_cb"
               /\ UNCHANGED <<huRet, h>>
          ELSE /\ cb' = cb
               /\ pc' = afterCallback(cb, otaRequested)
               /\ huRet' = afterCallbackRet(cb, otaRequested)
               /\ h' = [h EXCEPT !.lastDisp = IF m.topic = "ota" THEN "empty"
                                               ELSE "ignored"]
       /\ UNCHANGED <<durable, bootCount, cfg, otaRequested, otaFilename,
                      displayReady, wifiConnected, mqttConnected, bootPending,
                      otaElapsed, retained>>

\* mqttClient.publish(otaTopic, "", true): the result is not looked at
CbClearRetained ==
  /\ pc = "l_cb" /\ top.phase = "clear"
  /\ \E sent \in BOOLEAN :
       /\ retained' = IF sent THEN NoRetained ELSE retained
       /\ inbox' = IF sent
                   THEN Append(inbox, [topic |-> "ota", payload |-> EMPTY, gen |-> 0])
                   ELSE inbox
  /\ cb' = setTop([top EXCEPT !.phase = "flush", !.cleared = TRUE])
  /\ UNCHANGED <<pc, durable, bootCount, cfg, otaRequested, otaFilename, displayReady,
                 wifiConnected, mqttConnected, bootPending, huRet, otaElapsed, h>>

\* for (i < 20) { mqttClient.loop(); delay(50); } : a message arrives meanwhile
CbFlushReceive ==
  /\ pc = "l_cb" /\ top.phase = "flush"
  /\ inbox # << >>
  /\ mqttCallback(Head(inbox), Tail(inbox))

\* the flush loop ends
CbFlushDone ==
  /\ pc = "l_cb" /\ top.phase = "flush"
  /\ cb' = setTop([top EXCEPT !.phase = "dispatch"])
  /\ UNCHANGED <<pc, durable, bootCount, cfg, otaRequested, otaFilename, displayReady,
                 wifiConnected, mqttConnected, bootPending, huRet, otaElapsed, broker, h>>

\* validation, then otaCallback(...) -> requestUpdate: otaRequested, otaFilename
CbDispatch ==
  /\ pc = "l_cb" /\ top.phase = "dispatch"
  /\ IF isValidPath(top.msg)
     THEN /\ otaRequested' = TRUE
          /\ otaFilename' = requestedName(otaCallbackArg(top.msg))
          /\ cb' = setTop([top EXCEPT !.phase = "save_bool"])
          /\ h' = [callBegun(h, otaCallbackArg(top.msg)) EXCEPT
                            !.req = [set |-> TRUE, name |-> top.msg],
                            !.lastDisp = "accepted",
                            !.acted = h.acted \cup {top.gen},
                            !.reacted = h.reacted \/ top.gen \in h.acted]
          /\ UNCHANGED <<pc, huRet>>
     ELSE /\ cb' = pop
          /\ pc' = afterCallback(pop, otaRequested)
          /\ huRet' = afterCallbackRet(pop, otaRequested)
          /\ h' = [h EXCEPT !.lastDisp = "rejected"]
          /\ UNCHANGED <<otaRequested, otaFilename>>
  /\ UNCHANGED <<durable, bootCount, cfg, displayReady, wifiConnected, mqttConnected,
                 bootPending, otaElapsed, broker>>

\* requestUpdate -> saveOTATrigger, first write
CbSaveBool ==
  /\ pc = "l_cb" /\ top.phase = "save_bool"
  /\ nvsPending' = savePendingValue
  /\ cb' = setTop([top EXCEPT !.phase = "save_str"])
  /\ h' = [h EXCEPT !.nvsUsed = FALSE]
  /\ UNCHANGED <<pc, nvsFilename, nvsCfg, fwVersion, bootCount, cfg, otaRequested,
                 otaFilename, displayReady, wifiConnected, mqttConnected, bootPending,
                 huRet, otaElapsed, broker>>

\* requestUpdate -> saveOTATrigger, second write; mqttCallback returns
CbSaveStr ==
  /\ pc = "l_cb" /\ top.phase = "save_str"
  /\ nvsFilename' = saveFilenameValue(otaFilename)
  /\ cb' = pop
  /\ pc' = afterCallback(pop, otaRequested)
  /\ huRet' = afterCallbackRet(pop, otaRequested)
  /\ h' = callReturned(h)
  /\ UNCHANGED <<nvsPending, nvsCfg, fwVersion, bootCount, cfg, otaRequested,
                 otaFilename, displayReady, wifiConnected, mqttConnected, bootPending,
                 otaElapsed, broker>>

(***************************************************************************)
(* loop()                                                                  *)
(***************************************************************************)
\* NetworkManager::disconnect
disconnected ==
  /\ wifiConnected' = FALSE
  /\ mqttConnected' = FALSE
  /\ inbox' = << >>

\* if (network.connectWiFi()) { ... connectMQTT ... } : a failure skips the block
BrokerAnywayMutant(ok) == "l_mqtt"
afterConnectWiFi(ok) == IF ok THEN "l_mqtt" ELSE "l_serial"

\* loop(): readBattery(); if (network.connectWiFi()) ...
LoopTop ==
  /\ pc = "loop_top"
  /\ \E ok \in BOOLEAN :
       /\ wifiConnected' = ok
       /\ pc' = afterConnectWiFi(ok)
       /\ h' = noteWiFi(h, ok)
  /\ UNCHANGED <<durable, bootCount, cfg, otaRequested, otaFilename, displayReady,
                 mqttConnected, bootPending, cb, huRet, otaElapsed, broker>>

\* if (network.connectMQTT()) { network.publishReading(...); ...
\* connectMQTT only tries while !mqttClient.connected(); on success it subscribes,
\* so the broker sends the retained /ota message, and telemetry is published
LoopConnectMQTT ==
  /\ pc = "l_mqtt"
  /\ \E ok \in (IF mqttConnected THEN {FALSE} ELSE BOOLEAN) :
       /\ mqttConnected' = ok
       /\ pc' = IF ok THEN "l_pump0" ELSE "l_disc"
       /\ inbox' = IF ok /\ retained # NoRetained
                   THEN Append(inbox, [topic |-> "ota", payload |-> retained.payload,
                                       gen |-> retained.gen])
                   ELSE inbox
       /\ h' = IF ok THEN [h EXCEPT !.brokerUsed = TRUE] ELSE h
  /\ UNCHANGED <<durable, bootCount, cfg, otaRequested, otaFilename, displayReady,
                 wifiConnected, bootPending, cb, huRet, otaElapsed, retained>>

\* while (millis() - checkStart < 3000) { network.loop(); ... : a message is handled
PumpReceive ==
  /\ pc \in {"l_pump0", "l_pump"}
  /\ inbox # << >>
  /\ mqttCallback(Head(inbox), Tail(inbox))

\* ... network.loop() with nothing to handle; then the isUpdateRequested() test
PumpIdle ==
  /\ pc \in {"l_pump0", "l_pump"}
  /\ pc' = IF otaRequested THEN "hu_enter" ELSE "l_pump"
  /\ huRet' = IF otaRequested THEN "l_disc" ELSE huRet
  /\ UNCHANGED <<durable, bootCount, cfg, otaRequested, otaFilename, displayReady,
                 wifiConnected, mqttConnected, bootPending, cb, otaElapsed, broker, h>>

\* the 3000 ms are over (never before the first pass through the loop body)
PumpTimeout ==
  /\ pc = "l_pump"
  /\ pc' = "l_disc"
  /\ h' = [h EXCEPT !.lastDisp = "none"]
  /\ UNCHANGED <<durable, bootCount, volatile, broker>>

\* if (!otaManager.isUpdateRequested()) network.disconnect();
LoopDisconnect ==
  /\ pc = "l_disc"
  /\ IF ~otaRequested
     THEN disconnected
     ELSE UNCHANGED <<wifiConnected, mqttConnected, inbox>>
  /\ pc' = "l_serial"
  /\ UNCHANGED <<durable, bootCount, cfg, otaRequested, otaFilename, displayReady,
                 bootPending, cb, huRet, otaElapsed, retained, h>>

(***************************************************************************)
(* CommandHandler (serial console).                                        *)
(***************************************************************************)
SerialCommands ==
  {[op |-> o, arg |-> EMPTY] : o \in {"nosleep", "sleep", "save", "reboot", "reset",
                                      "set_sleep_on", "set_sleep_off"}}
  \cup {[op |-> o, arg |-> v] : o \in {"otaver", "set_otaver"}, v \in TargetVersions}

\* ConfigManager::saveConfig
saveConfig(nv, c) ==
  [nv EXCEPT !.wifi_ssid = c.wifiSSID, !.deep_sleep = c.deepSleepEnabled,
             !.ota_target = c.otaTargetVersion]

\* the fields of ConfigManager a command leaves in RAM
commandConfig(cmd, c) ==
  CASE cmd.op \in {"nosleep", "set_sleep_off"} -> [c EXCEPT !.deepSleepEnabled = FALSE]
    [] cmd.op \in {"sleep", "set_sleep_on"}    -> [c EXCEPT !.deepSleepEnabled = TRUE]
    [] cmd.op \in {"otaver", "set_otaver"}     -> [c EXCEPT !.otaTargetVersion = cmd.arg]
    [] OTHER                                   -> c

\* CommandHandler::checkCommands with one line waiting on Serial; goes on at next
checkCommands(cmd, next) ==
  /\ h.events < MaxEvents
  /\ IF cmd.op = "reboot"
     THEN \* handleReboot
          /\ espRestart([h EXCEPT !.events = h.events + 1])
          /\ UNCHANGED <<durable, retained>>
     ELSE IF cmd.op = "reset"
     THEN \* handleReset: config.clear(); ESP.restart()
          /\ nvsCfg' = nvsCfgErased
          /\ espRestart([h EXCEPT !.events = h.events + 1])
          /\ nvsPending' = pendingAfterClear(nvsPending)
          /\ nvsFilename' = filenameAfterClear(nvsFilename)
          /\ UNCHANGED <<fwVersion, retained>>
     ELSE /\ cfg' = commandConfig(cmd, cfg)
          /\ nvsCfg' = IF cmd.op \in {"nosleep", "sleep", "otaver", "save"}
                       THEN saveConfig(nvsCfg, cfg')
                       ELSE nvsCfg
          /\ h' = [h EXCEPT !.events = h.events + 1]
          /\ pc' = next
          /\ UNCHANGED <<nvsPending, nvsFilename, fwVersion, bootCount, otaRequested,
                         otaFilename, displayReady, wifiConnected, mqttConnected,
                         bootPending, cb, huRet, otaElapsed, broker>>

\* commandHandler.checkCommands() in loop(), a line is waiting
LoopSerial ==
  /\ pc = "l_serial"
  /\ \E cmd \in SerialCommands : checkCommands(cmd, "l_decide")

\* commandHandler.checkCommands() in loop(), Serial.available() == 0
LoopNoSerial ==
  /\ pc = "l_serial"
  /\ pc' = "l_decide"
  /\ UNCHANGED <<durable, bootCount, volatile, broker, h>>

\* the stay-awake / deep-sleep decision at the end of loop()
LoopDecide ==
  /\ pc = "l_decide"
  /\ pc' = IF otaRequested THEN "loop_top"
           ELSE IF cfg.deepSleepEnabled /\ ENABLE_DEEP_SLEEP
                THEN (IF bootCount = 1 THEN "l_first_wait" ELSE "l_sleep")
                ELSE "loop_top"
  /\ UNCHANGED <<durable, bootCount, volatile, broker, h>>

\* first boot: 30 s of checkCommands() before sleeping, a line is waiting
FirstBootSerial ==
  /\ pc = "l_first_wait"
  /\ \E cmd \in SerialCommands : checkCommands(cmd, "l_first_wait")

\* enterDeepSleep(): RAM is lost, RTC memory and NVS stay
EnterDeepSleep ==
  /\ pc \in {"l_first_wait", "l_sleep"}
  /\ pc' = "asleep"
  /\ ramLost
  /\ h' = cycleFresh(h)
  /\ UNCHANGED <<durable, bootCount, retained>>

(***************************************************************************)
(* Environment.                                                            *)
(***************************************************************************)
\* the wake-up timer fires
Wake ==
  /\ pc = "asleep"
  /\ bootCount < MaxBoots
  /\ pc' = "boot"
  /\ h' = [h EXCEPT !.boots = h.boots + 1]
  /\ UNCHANGED <<durable, bootCount, volatile, broker>>

\* power is lost and comes back: RAM and RTC memory are lost, NVS stays
PowerLoss ==
  /\ pc # "boot"
  /\ h.events < MaxEvents
  /\ espRestart([h EXCEPT !.events = h.events + 1,
                        !.lost = h.lost \/ pc \in {"hu_http_xfer", "hu_wait_xfer"}])
  /\ UNCHANGED <<durable, retained>>

\* somebody publishes a retained message to <base>/ota
OperatorPublishOta ==
  /\ h.events < MaxEvents
  /\ \E p \in OtaPayloads :
       /\ retained' = [payload |-> p, gen |-> h.events + 1]
       /\ inbox' = IF mqttConnected
                   THEN Append(inbox, [topic |-> "ota", payload |-> p,
                                       gen |-> h.events + 1])
                   ELSE inbox
  /\ h' = [h EXCEPT !.events = h.events + 1]
  /\ UNCHANGED <<pc, durable, bootCount, volatile>>

\* somebody publishes to <base>/reset while the device is subscribed
OperatorPublishReset ==
  /\ h.events < MaxEvents
  /\ mqttConnected
  /\ \E p \in ResetPayloads :
       inbox' = Append(inbox, [topic |-> "reset", payload |-> p, gen |-> h.events + 1])
  /\ h' = [h EXCEPT !.events = h.events + 1]
  /\ UNCHANGED <<pc, durable, bootCount, volatile, retained>>

Next ==
  \/ SetupBegin \/ SetupPending \/ SetupDisconnect \/ SetupAutoCheck
  \/ SetupSaveBool \/ SetupSaveStr
  \/ HandleUpdateEnter \/ ClearPutBool \/ ClearPutString
  \/ HttpStart \/ HttpEnd \/ WaitStart \/ WaitPass \/ WaitEnd
  \/ LoopTop \/ LoopConnectMQTT \/ PumpReceive \/ PumpIdle \/ PumpTimeout
  \/ CbClearRetained \/ CbFlushReceive \/ CbFlushDone \/ CbDispatch
  \/ CbSaveBool \/ CbSaveStr
  \/ LoopDisconnect \/ LoopSerial \/ LoopNoSerial \/ LoopDecide
  \/ FirstBootSerial \/ EnterDeepSleep
  \/ Wake \/ PowerLoss \/ OperatorPublishOta \/ OperatorPublishReset

Spec == Init /\ [][Next]_vars

\* the processor keeps executing the wait loop of handleUpdate(): a pass that is
\* due is taken, and so is the exit once the loop test fails; nothing is assumed
\* about uploads, the broker, the console or the power supply
WaitTimeout == WaitEnd /\ ~windowOpen(otaElapsed)
LiveSpec == Spec /\ WF_vars(WaitPass) /\ WF_vars(WaitTimeout)

\* the steps the firmware takes by itself, whatever the network, the broker, the
\* console and the power supply do
Program ==
  \/ SetupBegin \/ SetupPending \/ SetupDisconnect \/ SetupAutoCheck
  \/ SetupSaveBool \/ SetupSaveStr
  \/ HandleUpdateEnter \/ ClearPutBool \/ ClearPutString
  \/ HttpStart \/ HttpEnd \/ WaitStart \/ WaitPass \/ WaitEnd
  \/ LoopTop \/ LoopConnectMQTT \/ PumpReceive \/ PumpIdle \/ PumpTimeout
  \/ CbClearRetained \/ CbFlushReceive \/ CbFlushDone \/ CbDispatch
  \/ CbSaveBool \/ CbSaveStr
  \/ LoopDisconnect \/ LoopNoSerial \/ LoopDecide \/ EnterDeepSleep

\* the processor keeps running setup() and loop(); whether connections succeed
\* and what arrives is left to the environment
FairSpec == Spec /\ WF_vars(Program)

(***************************************************************************)
(* saveOTATrigger / clearOTATrigger on their own: any trigger contents to  *)
(* start with, any sequence of calls, each call two NVS writes.            *)
(***************************************************************************)
\* file names requestUpdate is called with
TriggerNames == {EMPTY, <<"v", "/", "f">>, firmwareFilename(V101)}

\* the last three calls that returned, oldest first
noCalls == <<"none", "none", "none">>
called(ops, op) == <<ops[2], ops[3], op>>
\* the argument of the last saveOTATrigger call entered / returned
noArm == [begun |-> NoName, done |-> NoName]

TrigInit ==
  /\ pc = "t_idle"
  /\ nvsPending \in BOOLEAN
  /\ nvsFilename \in TriggerNames
  /\ otaFilename = EMPTY
  /\ h = [ops |-> noCalls, arm |-> noArm]
  /\ huRet = "none" /\ otaElapsed = 0
  /\ nvsCfg = nvsCfgErased /\ fwVersion = V100 /\ bootCount = 0
  /\ cfg = cfgConstructed /\ otaRequested = FALSE
  /\ displayReady = FALSE /\ wifiConnected = FALSE /\ mqttConnected = FALSE
  /\ bootPending = FALSE /\ cb = << >>
  /\ retained = NoRetained /\ inbox = << >>

trigRest == <<huRet, otaElapsed, nvsCfg, fwVersion, bootCount, cfg, otaRequested,
              displayReady, wifiConnected, mqttConnected, bootPending, cb, broker>>

\* saveOTATrigger(filename): putBool("pending", true)
TrigSaveBool ==
  /\ pc = "t_idle"
  /\ \E filename \in TriggerNames :
       /\ otaFilename' = filename
       /\ h' = [h EXCEPT !.arm.begun = [set |-> TRUE, name |-> filename]]
  /\ nvsPending' = savePendingValue
  /\ pc' = "t_save_str"
  /\ UNCHANGED <<nvsFilename, trigRest>>

\* saveOTATrigger(filename): putString("filename", filename)
TrigSaveStr ==
  /\ pc = "t_save_str"
  /\ nvsFilename' = saveFilenameValue(otaFilename)
  /\ h' = [h EXCEPT !.ops = called(h.ops, "save"), !.arm.done = h.arm.begun]
  /\ pc' = "t_idle"
  /\ UNCHANGED <<nvsPending, otaFilename, trigRest>>

\* clearOTATrigger(): putBool("pending", false)
TrigClearBool ==
  /\ pc = "t_idle"
  /\ nvsPending' = clearPendingValue
  /\ pc' = "t_clr_str"
  /\ UNCHANGED <<nvsFilename, otaFilename, h, trigRest>>

\* clearOTATrigger(): putString("filename", "")
TrigClearStr ==
  /\ pc = "t_clr_str"
  /\ nvsFilename' = clearFilenameValue
  /\ h' = [h EXCEPT !.ops = called(h.ops, "clear")]
  /\ pc' = "t_idle"
  /\ UNCHANGED <<nvsPending, otaFilename, trigRest>>

TrigNext == TrigSaveBool \/ TrigSaveStr \/ TrigClearBool \/ TrigClearStr

TriggerSpec == TrigInit /\ [][TrigNext]_vars

(***************************************************************************)
(* ConfigManager and OTAManager side by side on the flash: any trigger     *)
(* contents and either of two stored configurations to start with, any     *)
(* sequence of saveOTATrigger, clearOTATrigger, console edits, saveConfig  *)
(* and clear (followed by the restart and begin), and power can be lost    *)
(* between any two writes; every boot reads the trigger.                   *)
(***************************************************************************)
\* "battery-mon" contents to start with: a first run's, and an edited one
StoredConfigs ==
  { configBegin(nvsCfgErased, V100),
    [initialized |-> TRUE, wifi_ssid |-> <<"h", "o", "m", "e">>,
     deep_sleep |-> FALSE, ota_target |-> V101] }

StoreInit ==
  /\ pc = "t_idle"
  /\ nvsPending \in BOOLEAN
  /\ nvsFilename \in TriggerNames
  /\ nvsCfg \in StoredConfigs
  /\ cfg = [wifiSSID |-> nvsCfg.wifi_ssid, deepSleepEnabled |-> nvsCfg.deep_sleep,
            otaTargetVersion |-> nvsCfg.ota_target]
  /\ otaFilename = EMPTY
  /\ h = [ops |-> noCalls, arm |-> noArm]
  /\ huRet = "none" /\ otaElapsed = 0
  /\ fwVersion = V100 /\ bootCount = 0 /\ otaRequested = FALSE
  /\ displayReady = FALSE /\ wifiConnected = FALSE /\ mqttConnected = FALSE
  /\ bootPending = FALSE /\ cb = << >>
  /\ retained = NoRetained /\ inbox = << >>

storeRest == <<huRet, otaElapsed, fwVersion, bootCount, otaRequested,
               displayReady, wifiConnected, mqttConnected, cb, broker>>

\* checkCommands: a "set" line edits the configuration in RAM
StoreEdit ==
  /\ pc = "t_idle"
  /\ \E cmd \in {c \in SerialCommands : c.op \in {"set_sleep_on", "set_sleep_off",
                                                    "set_otaver"}} :
       cfg' = commandConfig(cmd, cfg)
  /\ UNCHANGED <<pc, nvsPending, nvsFilename, nvsCfg, otaFilename, bootPending, h,
                 storeRest>>

\* checkCommands: "save" -> saveConfig()
StoreSave ==
  /\ pc = "t_idle"
  /\ nvsCfg' = saveConfig(nvsCfg, cfg)
  /\ h' = [h EXCEPT !.ops = called(h.ops, "cfgsave")]
  /\ UNCHANGED <<pc, nvsPending, nvsFilename, cfg, otaFilename, bootPending, storeRest>>

\* handleReset / resetCallback: config.clear(); ESP.restart()
StoreClear ==
  /\ pc = "t_idle"
  /\ nvsCfg' = nvsCfgErased
  /\ nvsPending' = pendingAfterClear(nvsPending)
  /\ nvsFilename' = filenameAfterClear(nvsFilename)
  /\ cfg' = cfgConstructed
  /\ otaFilename' = EMPTY
  /\ bootPending' = FALSE
  /\ h' = [h EXCEPT !.ops = called(h.ops, "cfgclear")]
  /\ pc' = "t_boot"
  /\ UNCHANGED storeRest

\* setup() after a restart: config.begin(...), then checkPendingOTA() reads
\* "pending" and "filename"
StoreBegin ==
  /\ pc = "t_boot"
  /\ nvsCfg' = configBegin(nvsCfg, fwVersion)
  /\ cfg' = [wifiSSID |-> nvsCfg'.wifi_ssid, deepSleepEnabled |-> nvsCfg'.deep_sleep,
             otaTargetVersion |-> nvsCfg'.ota_target]
  /\ bootPending' = nvsPending
  /\ otaFilename' = IF nvsPending THEN nvsFilename ELSE otaFilename
  /\ pc' = "t_idle"
  /\ UNCHANGED <<nvsPending, nvsFilename, h, storeRest>>

\* power is lost and comes back, also between the two writes of
\* saveOTATrigger or clearOTATrigger: RAM is lost, NVS stays
StorePowerLoss ==
  /\ pc # "t_boot"
  /\ pc' = "t_boot"
  /\ cfg' = cfgConstructed
  /\ otaFilename' = EMPTY
  /\ bootPending' = FALSE
  /\ UNCHANGED <<nvsPending, nvsFilename, nvsCfg, h, storeRest>>

StoreNext ==
  \/ TrigSaveBool \/ TrigSaveStr \/ TrigClearBool \/ TrigClearStr
  \/ StoreEdit \/ StoreSave \/ StoreClear \/ StoreBegin \/ StorePowerLoss

StoreSpec == StoreInit /\ [][StoreNext]_vars

(***************************************************************************)
(* isNewerVersion / checkForUpdates on their own: any pair of X.Y.Z        *)
(* versions (or no target), any trigger contents to start with.            *)
(***************************************************************************)
\* numbers a version is made of: small ones, and one- and two-digit neighbours
VersionParts == (0..MaxPart) \cup {9, 10}
VersionTriples == VersionParts \X VersionParts \X VersionParts

digitChar(d) ==
  CASE d = 0 -> "0" [] d = 1 -> "1" [] d = 2 -> "2" [] d = 3 -> "3" [] d = 4 -> "4"
    [] d = 5 -> "5" [] d = 6 -> "6" [] d = 7 -> "7" [] d = 8 -> "8" [] d = 9 -> "9"

\* a number as it is written in a version string
RECURSIVE decimal(_)
decimal(n) ==
  IF n < 10 THEN <<digitChar(n)>> ELSE decimal(n \div 10) \o <<digitChar(n % 10)>>

\* "X.Y.Z", as in FIRMWARE_VERSION and in the argument of otaver
versionString(t) == decimal(t[1]) \o <<".">> \o decimal(t[2]) \o <<".">> \o decimal(t[3])

VerInit ==
  /\ pc = "v_idle"
  /\ \E latest \in VersionTriples \cup {<<>>}, current \in VersionTriples :
       /\ cfg = [deepSleepEnabled |-> TRUE,
                 otaTargetVersion |-> IF latest = <<>> THEN EMPTY
                                      ELSE versionString(latest)]
       /\ fwVersion = versionString(current)
       /\ \E pending \in BOOLEAN :
            /\ nvsPending = pending
            /\ nvsFilename = (IF pending THEN <<"v", "/", "f">> ELSE EMPTY)
            /\ h = [latest |-> latest, current |-> current,
                    before |-> [pending |-> pending, filename |-> nvsFilename],
                    newer |-> FALSE, reverse |-> FALSE, returned |-> FALSE]
  /\ otaRequested = FALSE /\ otaFilename = EMPTY
  /\ huRet = "none" /\ otaElapsed = 0
  /\ nvsCfg = nvsCfgErased /\ bootCount = 0
  /\ displayReady = FALSE /\ wifiConnected = FALSE /\ mqttConnected = FALSE
  /\ bootPending = FALSE /\ cb = << >>
  /\ retained = NoRetained /\ inbox = << >>

verRest == <<huRet, otaElapsed, nvsCfg, fwVersion, bootCount, cfg, displayReady,
             wifiConnected, mqttConnected, bootPending, cb, broker>>

\* isNewerVersion(target, current) and isNewerVersion(current, target)
VerCompare ==
  /\ pc = "v_idle"
  /\ h' = [h EXCEPT !.newer = isNewerVersion(cfg.otaTargetVersion, fwVersion),
                    !.reverse = isNewerVersion(fwVersion, cfg.otaTargetVersion)]
  /\ pc' = "v_compared"
  /\ UNCHANGED <<nvsPending, nvsFilename, otaRequested, otaFilename, verRest>>

\* checkForUpdates(): the test, and requestUpdate(firmwareFilename) up to its save
VerCheck ==
  /\ pc = "v_compared"
  /\ IF updateAvailable(cfg.otaTargetVersion, fwVersion)
     THEN /\ otaRequested' = TRUE
          /\ otaFilename' = requestedName(firmwareFilename(cfg.otaTargetVersion))
          /\ pc' = "v_save_bool"
          /\ h' = h
     ELSE /\ pc' = "v_done"
          /\ h' = [h EXCEPT !.returned = FALSE]
          /\ UNCHANGED <<otaRequested, otaFilename>>
  /\ UNCHANGED <<nvsPending, nvsFilename, verRest>>

\* requestUpdate -> saveOTATrigger, first write
VerSaveBool ==
  /\ pc = "v_save_bool"
  /\ nvsPending' = savePendingValue
  /\ pc' = "v_save_str"
  /\ UNCHANGED <<nvsFilename, otaRequested, otaFilename, h, verRest>>

\* requestUpdate -> saveOTATrigger, second write; checkForUpdates() returns true
VerSaveStr ==
  /\ pc = "v_save_str"
  /\ nvsFilename' = saveFilenameValue(otaFilename)
  /\ h' = [h EXCEPT !.returned = TRUE]
  /\ pc' = "v_done"
  /\ UNCHANGED <<nvsPending, otaRequested, otaFilename, verRest>>

VerNext == VerCompare \/ VerCheck \/ VerSaveBool \/ VerSaveStr

VersionSpec == VerInit /\ [][VerNext]_vars

(***************************************************************************)
(* Preferences: a namespace holds the keys that were put; a get of a key   *)
(* that is not there returns the default the caller passes.                *)
(***************************************************************************)
noKeys == [k \in {} |-> FALSE]
getPref(nv, key, default) == IF key \in DOMAIN nv THEN nv[key] ELSE default
putPref(nv, key, value) ==
  [k \in DOMAIN nv \cup {key} |-> IF k = key THEN value ELSE nv[k]]

(***************************************************************************)
(* The battery_type configuration topic on its own: mqttCallback's last    *)
(* block, the chemistry setup() applies after a restart, any sequence of   *)
(* payloads and power losses.  ConfigManager's batteryType member is used  *)
(* by mqttCallback and setup() but declared in no file at hand; how it is  *)
(* stored and loaded follows the specification.                            *)
(***************************************************************************)
STR_lifepo4 == <<"l", "i", "f", "e", "p", "o", "4">>
STR_life == <<"l", "i", "f", "e">>
STR_li == <<"l", "i">>
STR_leadacid == <<"l", "e", "a", "d", "a", "c", "i", "d">>
STR_lead == <<"l", "e", "a", "d">>
STR_sla == <<"s", "l", "a">>

\* payloads an operator can publish to <base>/config/battery_type
ChemPayloads ==
  { <<" ", "L", "i", "F", "e", "P", "O", "4", " ">>,   \* canonical, padded, mixed case
    <<"l", "i">>,                                      \* alias
    <<"S", "L", "A">>,                                 \* alias in capitals
    <<"l", "e", "a", "d">>,                            \* alias
    <<"n", "i", "m", "h">>,                            \* no such chemistry
    <<"l", "i", "p", "o">> }                           \* starts like an alias

\* newType as the if / else-if chain of mqttCallback classifies it
UnknownIsLeadMutant(newType) ==
  IF newType \in {STR_lifepo4, STR_life, STR_li} THEN STR_lifepo4 ELSE STR_leadacid
selectedType(newType) ==
  IF newType \in {STR_lifepo4, STR_life, STR_li} THEN STR_lifepo4
  ELSE IF newType \in {STR_leadacid, STR_lead, STR_sla} THEN STR_leadacid
  ELSE EMPTY

\* BatteryMonitor::setChemistry argument for a canonical type, as mqttCallback
\* and setup() choose it
chemistryOf(batteryType) ==
  IF equalsIgnoreCase(batteryType, STR_lifepo4) THEN "LIFEPO4" ELSE "LEAD_ACID"

\* the Thresholds BatteryMonitor::setChemistry installs, in millivolts
thresholdsOf(chemistry) ==
  IF chemistry = "LIFEPO4"
  THEN [FULL |-> 14600, NOMINAL |-> 13200, LOW_THRESHOLD |-> 12800,
        CRITICAL |-> 12000, MINIMUM |-> 10000]
  ELSE [FULL |-> 12700, NOMINAL |-> 12400, LOW_THRESHOLD |-> 12000,
        CRITICAL |-> 11800, MINIMUM |-> 10500]

\* what mqttCallback does after config.batteryType is set: save, then publish
AckFirstMutant == <<"publish", "save">>
afterSelection == <<"save", "publish">>

\* saveConfig persists the chemistry selection
storeBatteryType(nv, c) == putPref(nv, "battery_type", c.batteryType)
\* begin loads the chemistry selection; lead-acid unless one was stored
loadBatteryType(nv) == getPref(nv, "battery_type", STR_leadacid)

ChemInit ==
  /\ pc = "c_boot"
  /\ nvsCfg = noKeys
  /\ cfg = [batteryType |-> EMPTY]
  /\ cb = << >>
  /\ retained = EMPTY
  /\ inbox = << >>
  /\ h = [events |-> 0, active |-> "LEAD_ACID", acked |-> FALSE, last |-> "none"]
  /\ huRet = "none" /\ otaElapsed = 0
  /\ nvsPending = FALSE /\ nvsFilename = EMPTY
  /\ fwVersion = V100 /\ bootCount = 0
  /\ otaRequested = FALSE /\ otaFilename = EMPTY
  /\ displayReady = FALSE /\ wifiConnected = FALSE /\ mqttConnected = FALSE
  /\ bootPending = FALSE

chemRest == <<huRet, otaElapsed, nvsPending, nvsFilename, fwVersion, bootCount,
              otaRequested, otaFilename, displayReady, wifiConnected,
              mqttConnected, bootPending>>

\* setup(): config.begin(...), then "Apply battery chemistry from NVS"
ChemSetup ==
  /\ pc = "c_boot"
  /\ cfg' = [batteryType |-> loadBatteryType(nvsCfg)]
  /\ h' = [h EXCEPT !.active = chemistryOf(cfg'.batteryType)]
  /\ pc' = "c_idle"
  /\ UNCHANGED <<nvsCfg, cb, retained, inbox, chemRest>>

\* mqttCallback for a message on <base>/config/battery_type, up to the return
\* of the else branch or to config.saveConfig()
ChemCallback ==
  /\ pc = "c_idle"
  /\ inbox # << >>
  /\ inbox' = Tail(inbox)
  /\ LET newType == toLowerCase(trim(Head(inbox)))
         sel     == selectedType(newType)
     IN  IF sel = EMPTY
         THEN /\ h' = [h EXCEPT !.last = "rejected"]
              /\ UNCHANGED <<pc, cfg, cb>>
         ELSE /\ cfg' = [cfg EXCEPT !.batteryType = sel]
              /\ h' = [h EXCEPT !.active = chemistryOf(sel), !.acked = FALSE,
                                !.last = "selected"]
              /\ cb' = afterSelection
              /\ pc' = "c_cb"
  /\ UNCHANGED <<nvsCfg, retained, chemRest>>

chemNext(steps) == IF Len(steps) = 1 THEN "c_idle" ELSE "c_cb"

\* config.saveConfig()
ChemSave ==
  /\ pc = "c_cb" /\ Head(cb) = "save"
  /\ nvsCfg' = storeBatteryType(nvsCfg, cfg)
  /\ cb' = Tail(cb)
  /\ pc' = chemNext(cb)
  /\ UNCHANGED <<cfg, retained, inbox, h, chemRest>>

\* mqttClient.publish(typeStateTopic, config.batteryType.c_str(), true)
ChemPublish ==
  /\ pc = "c_cb" /\ Head(cb) = "publish"
  /\ \E sent \in BOOLEAN :
       /\ retained' = IF sent THEN cfg.batteryType ELSE retained
       /\ h' = [h EXCEPT !.acked = sent]
  /\ cb' = Tail(cb)
  /\ pc' = chemNext(cb)
  /\ UNCHANGED <<nvsCfg, cfg, inbox, chemRest>>

\* somebody publishes to <base>/config/battery_type
ChemOperatorPublish ==
  /\ h.events < MaxEvents
  /\ pc # "c_boot"
  /\ \E p \in ChemPayloads : inbox' = Append(inbox, p)
  /\ h' = [h EXCEPT !.events = h.events + 1]
  /\ UNCHANGED <<pc, nvsCfg, cfg, cb, retained, chemRest>>

\* power is lost and comes back: RAM is lost, NVS and the broker's retained
\* acknowledgement stay
ChemPowerLoss ==
  /\ h.events < MaxEvents
  /\ pc # "c_boot"
  /\ pc' = "c_boot"
  /\ cfg' = [batteryType |-> EMPTY]
  /\ cb' = << >>
  /\ inbox' = << >>
  /\ h' = [h EXCEPT !.events = h.events + 1, !.active = "LEAD_ACID", !.acked = FALSE,
                    !.last = "none"]
  /\ UNCHANGED <<nvsCfg, retained, chemRest>>

ChemNext ==
  \/ ChemSetup \/ ChemCallback \/ ChemSave \/ ChemPublish
  \/ ChemOperatorPublish \/ ChemPowerLoss

ChemistrySpec == ChemInit /\ [][ChemNext]_vars

(***************************************************************************)
(* ConfigManager on the "battery-mon" namespace on its own: begin,         *)
(* saveConfig and clear write one key after the other, the console edits   *)
(* and saves, the image is replaced, and power can be lost between any two *)
(* writes.  wifi_ssid stands for the seven credential keys, which begin    *)
(* and saveConfig treat alike.                                             *)
(***************************************************************************)
\* bool isFirstRun = !preferences.getBool("initialized", false)
AlwaysFirstRunMutant(nv) == TRUE
isFirstRun(nv) == ~getPref(nv, "initialized", FALSE)

\* begin: the puts of a first run, in order
firstRunWrites(fw) ==
  << <<"wifi_ssid", wifiSsidDefault(fw)>>, <<"deep_sleep", TRUE>>,
     <<"initialized", TRUE>> >>

\* begin: "Load credentials from NVS"
loadConfig(nv, fw) ==
  [wifiSSID         |-> getPref(nv, "wifi_ssid", wifiSsidDefault(fw)),
   deepSleepEnabled |-> getPref(nv, "deep_sleep", TRUE),
   otaTargetVersion |-> getPref(nv, "ota_target", EMPTY)]

\* saveConfig: its puts, in order
saveWrites(c) ==
  << <<"wifi_ssid", c.wifiSSID>>, <<"deep_sleep", c.deepSleepEnabled>>,
     <<"ota_target", c.otaTargetVersion>> >>

\* clear: preferences.clear()
KeepKeysMutant(nv) == nv
clearedStore(nv) == noKeys

\* "set <key> <value>" lines typed on the console
SetEdits ==
  { [key |-> "wifi_ssid", value |-> <<"h", "o", "m", "e">>],
    [key |-> "deep_sleep", value |-> FALSE],
    [key |-> "ota_target", value |-> V101] }

\* handleSet: the member a key names is assigned
handleSet(c, e) ==
  CASE e.key = "wifi_ssid"  -> [c EXCEPT !.wifiSSID = e.value]
    [] e.key = "deep_sleep" -> [c EXCEPT !.deepSleepEnabled = e.value]
    [] e.key = "ota_target" -> [c EXCEPT !.otaTargetVersion = e.value]

\* handleSet: what it writes to NVS ("Remember to type 'save'")
SetSavesMutant(c) == saveWrites(c)
setWrites(c) == << >>

\* the commands that call saveConfig
SaveCommands ==
  {[op |-> o, arg |-> EMPTY] : o \in {"save", "nosleep", "sleep"}}
  \cup {[op |-> "otaver", arg |-> V101]}

noEdit == [set |-> FALSE, nvs |-> noKeys]
noSave == [cut |-> FALSE, before |-> cfgConstructed, after |-> cfgConstructed,
           op |-> "none"]

CfgInit ==
  /\ pc = "k_boot"
  /\ nvsCfg = noKeys
  /\ fwVersion = V100
  /\ cfg = cfgConstructed
  /\ cb = << >>
  /\ huRet = "none"
  /\ h = [cmds |-> 0, restarts |-> 0, everLoaded |-> FALSE, first |-> FALSE,
          cleared |-> FALSE, snap |-> noKeys, edit |-> noEdit, save |-> noSave]
  /\ otaElapsed = 0 /\ nvsPending = FALSE /\ nvsFilename = EMPTY /\ bootCount = 0
  /\ otaRequested = FALSE /\ otaFilename = EMPTY
  /\ displayReady = FALSE /\ wifiConnected = FALSE /\ mqttConnected = FALSE
  /\ bootPending = FALSE /\ retained = NoRetained /\ inbox = << >>

cfgRest == <<otaElapsed, nvsPending, nvsFilename, bootCount, otaRequested,
             otaFilename, displayReady, wifiConnected, mqttConnected,
             bootPending, broker>>

\* begin: the first-run test
CfgBegin ==
  /\ pc = "k_boot"
  /\ IF isFirstRun(nvsCfg)
     THEN /\ cb' = firstRunWrites(fwVersion)
          /\ pc' = "k_write"
          /\ huRet' = "k_load"
     ELSE /\ pc' = "k_load"
          /\ UNCHANGED <<cb, huRet>>
  /\ h' = [h EXCEPT !.snap = nvsCfg, !.first = ~h.everLoaded]
  /\ UNCHANGED <<nvsCfg, fwVersion, cfg, cfgRest>>

\* one put of begin, saveConfig or clear
CfgWrite ==
  /\ pc = "k_write"
  /\ nvsCfg' = putPref(nvsCfg, Head(cb)[1], Head(cb)[2])
  /\ cb' = Tail(cb)
  /\ pc' = IF Len(cb) = 1 THEN huRet ELSE "k_write"
  /\ cfg' = IF pc' = "k_boot" THEN cfgConstructed ELSE cfg
  /\ h' = IF pc' = "k_ready" THEN [h EXCEPT !.save = noSave] ELSE h
  /\ UNCHANGED <<fwVersion, huRet, cfgRest>>

\* begin: the gets
CfgLoad ==
  /\ pc = "k_load"
  /\ cfg' = loadConfig(nvsCfg, fwVersion)
  /\ pc' = "k_loaded"
  /\ UNCHANGED <<nvsCfg, fwVersion, cb, huRet, h, cfgRest>>

\* begin returns; setup() and loop() go on with the loaded configuration
CfgRun ==
  /\ pc = "k_loaded"
  /\ pc' = "k_ready"
  /\ h' = [h EXCEPT !.everLoaded = TRUE, !.first = FALSE, !.cleared = FALSE,
                    !.snap = noKeys, !.edit = noEdit, !.save = noSave]
  /\ UNCHANGED <<nvsCfg, fwVersion, cfg, cb, huRet, cfgRest>>

\* checkCommands: "set <key> <value>"
CfgSet ==
  /\ pc = "k_ready"
  /\ h.cmds < MaxCommands
  /\ \E e \in SetEdits : cfg' = handleSet(cfg, e)
  /\ cb' = setWrites(cfg')
  /\ pc' = IF cb' = << >> THEN "k_ready" ELSE "k_write"
  /\ huRet' = "k_ready"
  /\ h' = [h EXCEPT !.cmds = h.cmds + 1,
                    !.edit = IF h.edit.set THEN h.edit
                             ELSE [set |-> TRUE, nvs |-> nvsCfg]]
  /\ UNCHANGED <<nvsCfg, fwVersion, cfgRest>>

\* checkCommands: "save", "nosleep", "sleep", "otaver <version>"
CfgSave ==
  /\ pc = "k_ready"
  /\ h.cmds < MaxCommands
  /\ \E cmd \in SaveCommands :
       /\ cfg' = commandConfig(cmd, cfg)
       /\ h' = [h EXCEPT !.cmds = h.cmds + 1, !.edit = noEdit,
                         !.save = [cut |-> FALSE,
                                   before |-> loadConfig(nvsCfg, fwVersion),
                                   after |-> cfg', op |-> cmd.op]]
  /\ cb' = saveWrites(cfg')
  /\ pc' = "k_write"
  /\ huRet' = "k_ready"
  /\ UNCHANGED <<nvsCfg, fwVersion, cfgRest>>

\* checkCommands: "reset" -> handleReset -> clear(), then ESP.restart()
CfgClear ==
  /\ pc = "k_ready"
  /\ h.cmds < MaxCommands
  /\ nvsCfg' = clearedStore(nvsCfg)
  /\ cb' = << <<"initialized", FALSE>> >>
  /\ pc' = "k_write"
  /\ huRet' = "k_boot"
  /\ h' = [h EXCEPT !.cmds = h.cmds + 1, !.everLoaded = FALSE, !.cleared = TRUE,
                    !.edit = noEdit]
  /\ UNCHANGED <<fwVersion, cfg, cfgRest>>

\* handleUpdate succeeds: another image runs from the next boot on
CfgNewImage ==
  /\ pc = "k_ready"
  /\ h.restarts < MaxBoots
  /\ \E v \in Versions \ {fwVersion} : fwVersion' = v
  /\ pc' = "k_boot"
  /\ cfg' = cfgConstructed
  /\ h' = [h EXCEPT !.restarts = h.restarts + 1]
  /\ UNCHANGED <<nvsCfg, cb, huRet, cfgRest>>

\* power is lost and comes back, also in the middle of a sequence of puts
CfgPowerLoss ==
  /\ pc # "k_boot"
  /\ h.restarts < MaxBoots
  /\ pc' = "k_boot"
  /\ cfg' = cfgConstructed
  /\ cb' = << >>
  /\ h' = [h EXCEPT !.restarts = h.restarts + 1,
                    !.save = IF pc = "k_write" /\ huRet = "k_ready"
                             THEN [h.save EXCEPT !.cut = TRUE] ELSE h.save]
  /\ UNCHANGED <<nvsCfg, fwVersion, huRet, cfgRest>>

CfgNext ==
  \/ CfgBegin \/ CfgWrite \/ CfgLoad \/ CfgRun
  \/ CfgSet \/ CfgSave \/ CfgClear \/ CfgNewImage \/ CfgPowerLoss

ConfigSpec == CfgInit /\ [][CfgNext]_vars

(***************************************************************************)
(* BatteryMonitor::calculatePercentage on its own: either chemistry, any   *)
(* sequence of readings.  Voltages are in millivolts on a grid of 100 mV,  *)
(* percentages in thousandths of a percent.                                *)
(***************************************************************************)
\* voltages a reading can have: below zero, around every threshold, far above
Voltages == {100 * k : k \in (0 - 10)..(10 * MaxVolts)}

\* constrain(amt, low, high)
constrain(amt, low, high) == IF amt < low THEN low ELSE IF amt > high THEN high ELSE amt

\* float range = VOLTAGE_FULL - VOLTAGE_MIN
NominalRangeMutant(t) == t.NOMINAL - t.MINIMUM
percentRange(t) == t.FULL - t.MINIMUM

calculatePercentage(voltage, t) ==
  IF voltage >= t.FULL THEN 100000
  ELSE IF voltage <= t.MINIMUM THEN 0
  ELSE constrain(((voltage - t.MINIMUM) * 100000) \div percentRange(t), 0, 100000)

\* BatteryMonitor::determineStatus
BoundaryBelowMutant(voltage, t) ==
  IF voltage > t.FULL THEN "FULL"
  ELSE IF voltage > t.NOMINAL THEN "GOOD"
  ELSE IF voltage > t.LOW_THRESHOLD THEN "LOW_BATTERY"
  ELSE IF voltage > t.CRITICAL THEN "CRITICAL"
  ELSE "DEAD"
determineStatus(voltage, t) ==
  IF voltage >= t.FULL THEN "FULL"
  ELSE IF voltage >= t.NOMINAL THEN "GOOD"
  ELSE IF voltage >= t.LOW_THRESHOLD THEN "LOW_BATTERY"
  ELSE IF voltage >= t.CRITICAL THEN "CRITICAL"
  ELSE "DEAD"

PctInit ==
  /\ pc = "p_first"
  /\ h = [active |-> "LEAD_ACID", voltage |-> 0, percentage |-> 0, status |-> "DEAD"]
  /\ huRet = "none" /\ otaElapsed = 0
  /\ nvsPending = FALSE /\ nvsFilename = EMPTY
  /\ nvsCfg = nvsCfgErased /\ fwVersion = V100 /\ bootCount = 0
  /\ cfg = cfgConstructed /\ otaRequested = FALSE /\ otaFilename = EMPTY
  /\ displayReady = FALSE /\ wifiConnected = FALSE /\ mqttConnected = FALSE
  /\ bootPending = FALSE /\ cb = << >>
  /\ retained = NoRetained /\ inbox = << >>

pctRest == <<huRet, otaElapsed, durable, bootCount, volatile, broker>>

\* BatteryMonitor::setChemistry: the other set of thresholds becomes active
PctSetChemistry ==
  /\ h' = [h EXCEPT !.active = IF h.active = "LEAD_ACID" THEN "LIFEPO4" ELSE "LEAD_ACID"]
  /\ pc' = "p_first"
  /\ UNCHANGED pctRest

\* readBattery: reading.percentage = calculatePercentage(reading.voltage),
\* reading.status = determineStatus(reading.voltage)
PctRead ==
  /\ \E v \in Voltages :
       h' = [h EXCEPT !.voltage = v,
                      !.percentage = calculatePercentage(v, thresholdsOf(h.active)),
                      !.status = determineStatus(v, thresholdsOf(h.active))]
  /\ pc' = "p_read"
  /\ UNCHANGED pctRest

PctNext == PctSetChemistry \/ PctRead

PercentSpec == PctInit /\ [][PctNext]_vars

(***************************************************************************)
(* Properties.                                                             *)
(***************************************************************************)
transferring == pc \in {"hu_http_xfer", "hu_wait_xfer"}
hasBackslashOrColon(s) == \E i \in 1..Len(s) : s[i] \in {"\\", ":"}
allWhitespace(s) == \A i \in 1..Len(s) : s[i] \in {" ", "\t", "\n", "\r"}
isKeyword(s) == toLowerCase(s) \in {STR_update, STR_ota}

\* C1: while an update transfer is under way (the HTTP fetch, or the upload wait
\* window being serviced) the durable trigger reads {pending: false, filename: ""}
C1_DisarmedBeforeTransfer ==
  transferring => (nvsPending = FALSE /\ nvsFilename = EMPTY)

\* a fetch is under way in a wake cycle that found the trigger pending at boot
C1_Witness == pc = "hu_http_xfer" /\ bootPending /\ Len(otaFilename) > 0

\* C2: no transfer ever starts from an arm that already had a transfer started,
\* whether that earlier transfer failed or was cut short by a power loss
C2_NoReattempt == ~h.reused

\* a later wake cycle, after a transfer failed or was cut short, reaches loop()
\* with a newer firmware still not installed and without having started a transfer
C2_Witness ==
  /\ pc = "loop_top" /\ h.lost /\ h.xfers = 0
  /\ ~otaRequested /\ ~nvsPending

\* C3: a boot that follows a completed requestUpdate(f), with no apply in between,
\* finds the trigger pending with filename f
C3_ArmSurvives ==
  (pc = "s_checked" /\ h.armed.set)
    => (bootPending /\ otaRequested /\ otaFilename = h.armed.name)

\* such a boot, for a request that named a file
C3_Witness == pc = "s_checked" /\ h.armed.set /\ Len(h.armed.name) > 0 /\ bootPending

\* C4: in a wake cycle that found the trigger pending at boot, the first transfer
\* starts before any broker connection, publish or command processing
C4_AttemptFirst == (bootPending /\ h.xfers > 0) => ~h.brokerFirst

\* C5: the update callback never runs for a payload with a backslash or a colon,
\* no request is built from one, and the step that validates one changes neither
\* the request in RAM nor the durable trigger, and starts no transfer
C5_NoCallbackForBadPayload ==
  /\ \A i \in DOMAIN cb :
       cb[i].phase \in {"save_bool", "save_str"} => ~hasBackslashOrColon(cb[i].msg)
  /\ h.req.set => ~hasBackslashOrColon(h.req.name)

C5_RejectStep ==
  (/\ pc = "l_cb" /\ top.phase = "dispatch" /\ hasBackslashOrColon(top.msg)
   /\ cb' # cb /\ pc' # "boot")
    => /\ UNCHANGED <<otaRequested, otaFilename, nvsPending, nvsFilename>>
       /\ cb' = pop
       /\ h'.acted = h.acted /\ h'.armed = h.armed
       /\ pc' \in {"l_cb", "l_pump", "hu_enter"}

C6_ActedOnce == ~h.reacted

\* C7: the update callback runs for a payload only after the dispatcher issued the
\* empty retained publish for it
C7_ClearBeforeCallback ==
  \A i \in DOMAIN cb : cb[i].phase \in {"save_bool", "save_str"} => cb[i].cleared

\* requestUpdate is writing the trigger for a payload whose retained copy is gone
C7_Witness ==
  /\ cb # << >> /\ top.phase = "save_str" /\ ~hasBackslashOrColon(top.msg)
  /\ retained = NoRetained /\ nvsPending

\* C8: receiving an update-topic payload that is empty after trimming changes
\* nothing but the message being consumed: no request, no trigger change, no
\* activation of the dispatcher and no publish to the command topic
C8_EmptyStep ==
  (/\ pc \in {"l_pump0", "l_pump", "l_cb"}
   /\ inbox # << >> /\ Head(inbox).topic = "ota" /\ allWhitespace(Head(inbox).payload)
   /\ Len(inbox') < Len(inbox) /\ pc' # "boot")
    => /\ UNCHANGED <<otaRequested, otaFilename, nvsPending, nvsFilename, retained, cb>>
       /\ inbox' = Tail(inbox)
       /\ h'.acted = h.acted

\* C8: every receipt of an update-topic payload that trims to empty is a step
\* that creates no request, leaves the durable trigger alone and publishes nothing
C8_EmptyIgnored == [][C8_EmptyStep]_vars

\* the echo of a retained clear was ignored while a request was armed
C8_Witness == h.lastDisp = "empty" /\ nvsPending /\ retained = NoRetained

C10_NoSecondTransfer == ~h.afterFail

C11_ReturnStep ==
  (transferring /\ pc' # pc /\ pc' # "boot")
    => /\ otaRequested' = FALSE
       /\ nvsPending' = FALSE /\ nvsFilename' = EMPTY
       /\ cb' = << >>
       /\ pc' \in {"s_pend_disc", "s_auto_disc", "l_disc"}

\* C11: every step in which handleUpdate() returns from a transfer without a
\* restart leaves no request in RAM and the durable trigger at {false, ""}, and
\* hands control back to the step of setup()/loop() that follows the call
C11_ReturnsIdle == [][C11_ReturnStep]_vars

\* handleUpdate() has returned to setup() after the pending update failed
C11_Witness ==
  /\ pc = "s_pend_disc" /\ h.failed /\ bootPending
  /\ ~otaRequested /\ ~nvsPending

\* C12: a wait window that is being serviced is always left again: by an upload,
\* by a reset, or by handleUpdate() returning when otaTimeout has passed
C12_WindowEnds == (pc = "hu_wait_xfer") ~> (pc # "hu_wait_xfer")

\* the window has been serviced for its whole length without an upload
C12_Witness == pc = "hu_wait_xfer" /\ ~windowOpen(otaElapsed) /\ otaElapsed > 0

\* C13: a wake cycle that loaded deepSleepEnabled = true ends in deep sleep or in
\* a restart, unless a command switches deep sleep off on the way
C13_CycleEnds ==
  (pc = "s_checked" /\ cfg.deepSleepEnabled)
    ~> (pc \in {"asleep", "boot"} \/ ~cfg.deepSleepEnabled)

C14_Step ==
  LET moved == pc' # pc /\ pc' # "boot" IN
  /\ (pc = "loop_top" /\ moved /\ ~wifiConnected')
       => /\ pc' = "l_serial"
          /\ UNCHANGED <<mqttConnected, inbox, cb, otaRequested>>
          /\ h'.brokerUsed = h.brokerUsed
  /\ (pc = "l_mqtt" /\ moved /\ ~mqttConnected')
       => /\ pc' = "l_disc"
          /\ UNCHANGED <<inbox, cb, otaRequested>>
          /\ h'.brokerUsed = h.brokerUsed
  /\ (pc = "l_disc" /\ moved) => pc' = "l_serial" /\ UNCHANGED <<cb, otaRequested>>
  /\ (pc = "l_serial" /\ moved) => pc' = "l_decide" /\ UNCHANGED <<cb, otaRequested>>

\* C14: in a pass of loop() a failed connectWiFi() is followed neither by a broker
\* connection, nor a publish, nor the command pump, a failed connectMQTT() by
\* neither publish nor pump, and either way loop() reaches its sleep decision
C14_FailureSkips ==
  /\ [][C14_Step]_vars
  /\ (pc \in {"l_disc", "l_serial"}) ~> (pc \in {"l_decide", "boot"})

\* the decision is reached in a pass in which the broker could not be connected,
\* with a request waiting that the pump would have applied
C14_Witness ==
  /\ pc = "l_decide" /\ wifiConnected /\ ~mqttConnected
  /\ otaRequested /\ ~h.brokerUsed

\* C15: the device goes into deep sleep only in a step that starts with
\* deepSleepEnabled = true
C15_SleepOnlyIfEnabled ==
  [][(pc # "asleep" /\ pc' = "asleep") => cfg.deepSleepEnabled]_vars

\* C16: once requestUpdate(f) has returned and until handleUpdate() takes the
\* request, the NVS trigger is {true, f}, and so is the request in RAM while the
\* firmware runs, however many calls came before
C16_LastCallWins ==
  h.armed.set =>
    /\ nvsPending /\ nvsFilename = h.armed.name
    /\ pc # "boot" => (otaRequested /\ otaFilename = h.armed.name)

\* two calls have returned with no handleUpdate() in between, the second with
\* another file name than the first
C16_Witness ==
  /\ h.calls = 2 /\ h.armed.set /\ cb = << >>
  /\ h.armed.name = <<"v", "/", "f">> /\ Cardinality(h.acted) = 2

\* C17: whenever clearOTATrigger() has just returned, the NVS trigger is
\* {false, ""}, whatever it held before and whichever calls came before
C17_DisarmIdempotent ==
  (pc = "t_idle" /\ h.ops[3] = "clear")
    => (nvsPending = FALSE /\ nvsFilename = EMPTY)

\* a save followed by two clears has been carried out
C17_Witness == pc = "t_idle" /\ h.ops = <<"save", "clear", "clear">>

\* (major, minor, patch) of one version above that of another
lexGreater(t, u) ==
  \/ t[1] > u[1]
  \/ t[1] = u[1] /\ t[2] > u[2]
  \/ t[1] = u[1] /\ t[2] = u[2] /\ t[3] > u[3]

\* C18: checkForUpdates() returns true, with the request and the NVS trigger set
\* to the firmware file of the target, exactly when a target is configured whose
\* triple is above the running version's; otherwise it returns false and leaves
\* the request and the trigger as they were
C18_RequestsIffNewer ==
  pc = "v_done" =>
    /\ h.returned = (h.latest # <<>> /\ lexGreater(h.latest, h.current))
    /\ h.returned =>
          /\ otaRequested /\ otaFilename = firmwareFilename(cfg.otaTargetVersion)
          /\ nvsPending /\ nvsFilename = firmwareFilename(cfg.otaTargetVersion)
    /\ ~h.returned =>
          /\ ~otaRequested /\ otaFilename = EMPTY
          /\ nvsPending = h.before.pending /\ nvsFilename = h.before.filename

\* checkForUpdates() has returned false for a target equal to the running version,
\* with a trigger that was pending before
C18_Witness ==
  /\ pc = "v_done" /\ ~h.returned /\ h.latest = h.current
  /\ h.latest = <<1, 10, 9>> /\ nvsPending

\* C19: for X.Y.Z versions isNewerVersion(a, b) is true exactly when the triple of
\* a is above that of b; it is false for a = b and never true in both directions
C19_LexicographicOrder ==
  (pc = "v_compared" /\ h.latest # <<>>) =>
    /\ h.newer = lexGreater(h.latest, h.current)
    /\ h.reverse = lexGreater(h.current, h.latest)
    /\ h.latest = h.current => ~h.newer
    /\ ~(h.newer /\ h.reverse)

\* 1.10.0 has been compared with 1.9.10 and found newer
C19_Witness ==
  /\ pc = "v_compared" /\ h.newer /\ ~h.reverse
  /\ h.latest = <<1, 10, 0>> /\ h.current = <<1, 9, 10>>

\* mqttClient.loop() hands the oldest message in flight, one on <base>/reset, to
\* mqttCallback: a step of the pump in loop() or of the flush loop of a callback
resetReceived ==
  /\ pc \in {"l_pump0", "l_pump"} \/ (pc = "l_cb" /\ top.phase = "flush")
  /\ inbox # << >>
  /\ Head(inbox).topic = "reset"
  /\ inbox' # inbox
  /\ h'.events = h.events

C20_Step ==
  resetReceived =>
    IF toLowerCase(Head(inbox).payload) \in {STR_nvs, STR_config}
    THEN /\ nvsCfg' = nvsCfgErased
         /\ pc' = "boot" /\ bootCount' = 0 /\ inbox' = << >>
         /\ UNCHANGED <<nvsPending, nvsFilename, fwVersion, retained>>
    ELSE /\ inbox' = Tail(inbox)
         /\ pc' # "boot"
         /\ UNCHANGED <<durable, bootCount, cfg, otaRequested, otaFilename,
                        displayReady, wifiConnected, mqttConnected, bootPending,
                        cb, otaElapsed, retained>>

chemRejected ==
  /\ pc = "c_idle" /\ inbox # << >>
  /\ inbox' = Tail(inbox)
  /\ h'.events = h.events
  /\ toLowerCase(trim(Head(inbox))) \notin
       {STR_lifepo4, STR_life, STR_li, STR_leadacid, STR_lead, STR_sla}

\* C21: a battery_type payload outside the accepted words changes nothing: the
\* selection in memory and in NVS and the active chemistry (hence the
\* thresholds) stay as they were, the callback returns without reaching the
\* save or the publish, and the retained acknowledgement is not republished
C21_UnknownChangesNothing ==
  [][chemRejected =>
       /\ pc' = "c_idle"
       /\ UNCHANGED <<cfg, nvsCfg, retained, cb>>
       /\ h'.active = h.active
       /\ h'.acked = h.acked
       /\ thresholdsOf(h'.active) = thresholdsOf(h.active)]_vars

\* "nimh" has been taken and dropped while LiFePO4 was selected, stored and
\* acknowledged
C21_Witness ==
  /\ pc = "c_idle" /\ inbox = << >> /\ h.last = "rejected"
  /\ cfg.batteryType = STR_lifepo4
  /\ getPref(nvsCfg, "battery_type", EMPTY) = STR_lifepo4
  /\ retained = STR_lifepo4 /\ h.acked
  /\ h.active = "LIFEPO4"

compiledDefaults(fw) ==
  [wifiSSID |-> wifiSsidDefault(fw), deepSleepEnabled |-> TRUE,
   otaTargetVersion |-> EMPTY]

\* the namespace a first run leaves behind
firstRunStore(fw) ==
  [k \in {"wifi_ssid", "deep_sleep", "initialized"} |->
     CASE k = "wifi_ssid" -> wifiSsidDefault(fw)
       [] k = "deep_sleep" -> TRUE
       [] k = "initialized" -> TRUE]

\* C23: the first load since the namespace was empty writes the image's
\* defaults to NVS and returns them; every later load writes nothing and
\* returns what NVS held when it began, whatever the image's defaults are
C23_DefaultsOnlyOnFirstLoad ==
  pc = "k_loaded" =>
    IF h.first
    THEN cfg = compiledDefaults(fwVersion) /\ nvsCfg = firstRunStore(fwVersion)
    ELSE /\ nvsCfg = h.snap
         /\ {"wifi_ssid", "deep_sleep"} \subseteq DOMAIN h.snap
         /\ cfg.wifiSSID = h.snap["wifi_ssid"]
         /\ cfg.deepSleepEnabled = h.snap["deep_sleep"]
         /\ cfg.otaTargetVersion = getPref(h.snap, "ota_target", EMPTY)

\* a later load under a replaced image has returned the stored, customized
\* name, which is not the default of either image
C23_Witness ==
  /\ pc = "k_loaded" /\ ~h.first /\ fwVersion = V101
  /\ cfg.wifiSSID = <<"h", "o", "m", "e">>

\* a step of the update path: requestUpdate with saveOTATrigger, handleUpdate
\* with clearOTATrigger, the transfer and the restart that ends it
updateStep ==
  /\ \/ pc \in {"hu_enter", "hu_clr_bool", "hu_clr_str", "hu_http", "hu_http_xfer",
                "hu_wait", "hu_wait_xfer", "s_auto", "s_save_bool", "s_save_str"}
     \/ pc = "l_cb" /\ top.phase \in {"dispatch", "save_bool", "save_str"}
  /\ h'.events = h.events

\* C24: no step of the update path writes a configuration key, the update
\* path is only entered with an initialized configuration, and a boot with an
\* initialized configuration, under whatever image, writes no key and loads
\* exactly the stored values; so the first boot after a firmware replacement
\* loads what was stored before it, not the new image's defaults
C24_ConfigSurvivesUpdate ==
  [][/\ updateStep => (nvsCfg' = nvsCfg /\ nvsCfg.initialized)
     /\ (pc = "boot" /\ pc' # "boot" /\ nvsCfg.initialized) =>
          /\ nvsCfg' = nvsCfg
          /\ cfg' = [wifiSSID |-> nvsCfg.wifi_ssid,
                     deepSleepEnabled |-> nvsCfg.deep_sleep,
                     otaTargetVersion |-> nvsCfg.ota_target]]_vars

\* the 1.0.1 image has booted and loaded the configuration the 1.0.0 image
\* left: its SSID, not that of 1.0.1, and the customized stay-awake setting
C24_Witness ==
  /\ pc = "s_checked" /\ fwVersion = V101
  /\ cfg.wifiSSID = wifiSsidDefault(V100)
  /\ ~cfg.deepSleepEnabled
  /\ nvsCfg.wifi_ssid = wifiSsidDefault(V100) /\ ~nvsCfg.deep_sleep

\* C25: a load on the boot after a power loss that interrupted saveConfig
\* returns every field as it was stored before the save, or every field as
\* it was being saved, never some of each
C25_SaveAtomic ==
  (pc = "k_loaded" /\ h.save.cut) => cfg \in {h.save.before, h.save.after}

\* C26: the first load after clear() returns the image's defaults for every
\* field and leaves in NVS exactly what a first run on a blank namespace
\* leaves: nothing that was customized before the clear is still there
C26_ClearThenFirstRun ==
  (pc = "k_loaded" /\ h.cleared) =>
    /\ cfg = compiledDefaults(fwVersion)
    /\ nvsCfg = firstRunStore(fwVersion)

\* an edit or a save was followed by "reset"; the boot after it found only the
\* cleared marker in NVS and has loaded the defaults
C26_Witness ==
  /\ pc = "k_loaded" /\ h.cleared /\ h.cmds = 2
  /\ h.snap = putPref(noKeys, "initialized", FALSE)
  /\ cfg = compiledDefaults(fwVersion)

\* C27: from a "set" until the next command that saves or clears, NVS holds
\* what it held before the set, and a load after a restart in between returns
\* those earlier values, not the edited ones
C27_SetOnlyInMemory ==
  h.edit.set =>
    /\ nvsCfg = h.edit.nvs
    /\ pc = "k_loaded" => cfg = loadConfig(h.edit.nvs, fwVersion)

\* a field was edited with "set" and not saved; after a power loss the load
\* has returned the stored values, which are still those of the first run
C27_Witness ==
  /\ pc = "k_loaded" /\ h.edit.set /\ h.restarts = 1 /\ h.cmds = 1
  /\ cfg.deepSleepEnabled /\ nvsCfg["deep_sleep"]
  /\ cfg.wifiSSID = wifiSsidDefault(V100) /\ cfg.otaTargetVersion = EMPTY

\* C28: bootCount is the number of boots since power-on or restart: every
\* boot, the first one and each wake-up from deep sleep, adds one in setup(),
\* and nothing else changes it, however often loop() runs in between
C28_OncePerBoot ==
  bootCount = IF pc = "boot" THEN h.boots - 1 ELSE h.boots

\* the second boot since power-on; deep sleep has since been switched off and
\* loop() is at its stay-awake decision
C28_Witness ==
  /\ pc = "l_decide" /\ bootCount = 2 /\ h.boots = 2
  /\ ~cfg.deepSleepEnabled

hasPathSeparator(s) == \E i \in 1..Len(s) : s[i] \in {"/", "\\"}

\* C29: no update request is created, and no fetch is started, from an update
\* payload that contains a forward slash or a backslash
C29_PathsRejected ==
  /\ h.req.set => ~hasPathSeparator(h.req.name)
  /\ \A i \in DOMAIN cb :
       cb[i].phase \in {"save_bool", "save_str"} => ~hasPathSeparator(cb[i].msg)

\* the percentage of the reading in hand is the clamped linear interpolation
C30_Reading ==
  pc = "p_read" =>
    LET t == thresholdsOf(h.active)
        v == h.voltage
        p == h.percentage
    IN  /\ v >= t.FULL => p = 100000
        /\ v <= t.MINIMUM => p = 0
        /\ (t.MINIMUM < v /\ v < t.FULL) =>
             /\ p * (t.FULL - t.MINIMUM) <= 100000 * (v - t.MINIMUM)
             /\ 100000 * (v - t.MINIMUM) < (p + 1) * (t.FULL - t.MINIMUM)
        /\ 0 <= p /\ p <= 100000

\* C30: with the thresholds of the active chemistry, the percentage of a
\* reading is 100 at or above FULL, 0 at or below MINIMUM, and in between the
\* linear interpolation 100 * (v - MINIMUM) / (FULL - MINIMUM), here cut to a
\* thousandth of a percent; it lies in 0..100, and of two readings in a row
\* under one chemistry the one with the higher voltage has no lower percentage
C30_ClampedLinear ==
  /\ []C30_Reading
  /\ [][(pc = "p_read" /\ pc' = "p_read" /\ h.voltage <= h'.voltage)
         => h.percentage <= h'.percentage]_vars

\* LiFePO4: a reading of 12.3 V, at 50 %
C30_Witness ==
  /\ pc = "p_read" /\ h.active = "LIFEPO4"
  /\ h.voltage = 12300 /\ h.percentage = 50000

\* the statuses whose class a voltage belongs to: the lower bound of a class is
\* in it, the upper bound is not
statusClasses(v, t) ==
  {c \in {"FULL", "GOOD", "LOW_BATTERY", "CRITICAL", "DEAD"} :
     \/ c = "FULL" /\ t.FULL <= v
     \/ c = "GOOD" /\ t.NOMINAL <= v /\ v < t.FULL
     \/ c = "LOW_BATTERY" /\ t.LOW_THRESHOLD <= v /\ v < t.NOMINAL
     \/ c = "CRITICAL" /\ t.CRITICAL <= v /\ v < t.LOW_THRESHOLD
     \/ c = "DEAD" /\ v < t.CRITICAL}

\* C31: the status of a reading is FULL at or above FULL, else GOOD at or above
\* NOMINAL, else LOW at or above LOW, else CRITICAL at or above CRITICAL, else
\* DEAD: a voltage equal to a threshold is in the higher class, and every
\* voltage, zero and negative ones too, is in exactly one class
C31_StatusClasses ==
  pc = "p_read" => statusClasses(h.voltage, thresholdsOf(h.active)) = {h.status}

\* lead-acid: a reading of exactly the NOMINAL threshold, 12.4 V, is GOOD
C31_Witness ==
  /\ pc = "p_read" /\ h.active = "LEAD_ACID"
  /\ h.voltage = 12400 /\ h.status = "GOOD"

\* checkForUpdates() has been called in setup() of this wake cycle: control is
\* in or behind the branch of setup() that calls it
autoChecked ==
  \/ pc \in {"s_save_bool", "s_save_str", "s_auto_disc"}
  \/ huRet = "s_auto_disc"

autoTransferStarts ==
  /\ huRet = "s_auto_disc"
  /\ pc \in {"hu_http", "hu_wait"}
  /\ pc' \in {"hu_http_xfer", "hu_wait_xfer"}

\* C33: the automatic check starts only a bounded number of update transfers:
\* from some point on, whatever the outcome of the transfers and whichever image
\* gets installed, the automatic check starts no further transfer
C33_AutoTransfersEnd == <>[][~autoTransferStarts]_vars

\* C34: mqttCallback is never re-entered: while one message is being handled,
\* the wait after the retained-clear publish included, no second message is
\* dispatched, so there is at most one activation of the callback at any time
C34_NeverReentered == Len(cb) <= 1

\* the durable trigger holds the request mqttCallback makes for message m
armedFor(m) == nvsPending /\ nvsFilename = otaCallbackArg(m)

\* power is lost while a command that passes the validation is being handled,
\* its retained copy is gone from the broker, and the trigger does not hold it
commandLost ==
  /\ pc' = "boot" /\ h'.events = h.events + 1
  /\ retained = NoRetained
  /\ \E i \in 1..Len(cb) :
       cb[i].cleared /\ isValidPath(cb[i].msg) /\ ~armedFor(cb[i].msg)

\* C35: an accepted update command is not lost to a power failure: whenever
\* power is lost after the broker's retained copy of the command has been
\* cleared, the durable trigger already records the command (or the update has
\* been attempted), so the command is either still retained or armed
C35_NeverLost == [][~commandLost]_vars

\* checkPendingOTA() found the trigger pending in this wake cycle and no
\* connectWiFi() of the cycle has succeeded so far
pendingOffline == bootPending /\ ~h.netUp

triggerRecord == <<nvsPending, nvsFilename>>

\* C37: the configuration store and the durable trigger are independent: a
\* step of clear() or saveConfig(), which changes the stored configuration,
\* leaves the trigger as it was, and a write of saveOTATrigger or
\* clearOTATrigger, which changes the trigger, leaves every configuration key
\* as it was
C37_StoresIndependent ==
  [][ /\ nvsCfg' # nvsCfg => triggerRecord' = triggerRecord
      /\ triggerRecord' # triggerRecord => nvsCfg' = nvsCfg ]_vars

\* clear() has just erased the configuration while an update for a named file
\* was armed
C37_Witness ==
  /\ pc = "t_boot" /\ nvsCfg = nvsCfgErased
  /\ nvsPending /\ nvsFilename = <<"v", "/", "f">>

\* checkPendingOTA() reports a pending update at the boot this step completes
bootFindsPending == pc = "t_boot" /\ pc' = "t_idle" /\ bootPending'

\* C38: the durable trigger is never read half-written: at a boot that finds it
\* pending, also one that follows a power loss between the two writes of
\* saveOTATrigger or clearOTATrigger, the stored file name is the argument of
\* the most recent saveOTATrigger call (the one entered last, or the one that
\* returned last)
C38_NeverHalfWritten ==
  [][(bootFindsPending /\ h.arm.begun.set)
       => \/ otaFilename' = h.arm.begun.name
          \/ h.arm.done.set /\ otaFilename' = h.arm.done.name]_vars

\* configuration b has the values of a in every field but the one the command
\* op is about
otherFieldsKept(op, a, b) ==
  /\ b.wifiSSID = a.wifiSSID
  /\ op \notin {"nosleep", "sleep"} => b.deepSleepEnabled = a.deepSleepEnabled
  /\ op # "otaver" => b.otaTargetVersion = a.otaTargetVersion

\* C39: a command that persists one setting at once (nosleep, sleep, otaver)
\* changes the durable value of that setting only: after each of its writes
\* every other field still loads as it did before the command, fields edited
\* with set and not saved included
C39_OnlyThatSetting ==
  [][(pc = "k_write" /\ huRet = "k_ready" /\ h.save.op \in {"nosleep", "sleep", "otaver"})
       => otherFieldsKept(h.save.op, h.save.before, loadConfig(nvsCfg', fwVersion))]_vars

====
